---------------------------- MODULE Spec2Model ----------------------------
(***************************************************************************)
(* A model of the calculation engine of protein_toolkit:                   *)
(*   core/calculators/beer_lambert.py     calculate_beer_lambert           *)
(*   core/calculators/thermodynamics.py   calculate_thermodynamics         *)
(*                                                                         *)
(* The engine computes on Python floats (IEEE-754 binary64).  The model    *)
(* keeps the arithmetic of that format -- round to nearest, ties to even,  *)
(* gradual underflow, overflow to infinity, NaN, and Python's              *)
(* ZeroDivisionError on a zero divisor -- at a reduced width: a            *)
(* significand of Prec bits and binary exponents from -EminMag to Emax.    *)
(* The sign of zero is not kept: Python compares -0.0 equal to 0.0 and     *)
(* no branch of the engine tells them apart.                               *)
(***************************************************************************)
EXTENDS Integers, Sequences, FiniteSets, TLC

(***************************************************************************)
(* The floating-point format.                                              *)
(***************************************************************************)
\* bits of significand (binary64: 53)
Prec == 7
\* largest binary exponent of a finite value (binary64: 1023)
Emax == 10
\* the smallest positive value is 2^(-EminMag) (binary64: 1074)
EminMag == 16

Qmin == 0 - EminMag

RECURSIVE Pow2(_)
Pow2(n) == IF n <= 0 THEN 1 ELSE 2 * Pow2(n - 1)

RECURSIVE BitLen(_)
BitLen(n) == IF n <= 0 THEN 0 ELSE 1 + BitLen(n \div 2)

Abs(x) == IF x < 0 THEN 0 - x ELSE x
Max(a, b) == IF a >= b THEN a ELSE b
Min(a, b) == IF a <= b THEN a ELSE b
Sgn(x) == IF x < 0 THEN 0 - 1 ELSE 1

\* A float is a record [k, m, e]:
\*   k = "fin": the value m * 2^e, m odd (or m = 0 and e = 0)
\*   k = "inf": +inf (m = 1) or -inf (m = -1)
\*   k = "nan": not a number
\*   k = "none": Python's None, an absent Optional[float]
None == [k |-> "none", m |-> 0, e |-> 0]
NaN == [k |-> "nan", m |-> 0, e |-> 0]
Inf(s) == [k |-> "inf", m |-> s, e |-> 0]
Zero == [k |-> "fin", m |-> 0, e |-> 0]

RECURSIVE Canon(_, _)
Canon(m, e) ==
  IF m = 0 THEN Zero
  ELSE IF m % 2 = 0 THEN Canon(m \div 2, e + 1)
  ELSE [k |-> "fin", m |-> m, e |-> e]

\* s * n * 2^e (n > 0, at most Prec bits, e >= Qmin), or the infinity of
\* that sign when it is 2^(Emax+1) or more.
Finite(s, n, e) ==
  IF e + BitLen(n) > Emax + 1 THEN Inf(s)
  ELSE LET c == Canon(n, e) IN [c EXCEPT !.m = s * c.m]

\* The float nearest to s * n * 2^e (n >= 0), ties to the even significand.
RoundInt(s, n, e) ==
  IF n = 0 THEN Zero
  ELSE
    LET len == BitLen(n)
        q == Max(e + len - Prec, Qmin)
        sh == q - e
    IN IF sh <= 0 THEN Finite(s, n, e)
       ELSE IF sh > len THEN Zero
       ELSE
         LET r == n \div Pow2(sh)
             rem == n % Pow2(sh)
             half == Pow2(sh - 1)
             up == rem > half \/ (rem = half /\ r % 2 = 1)
             rr == IF up THEN r + 1 ELSE r
         IN IF rr = 0 THEN Zero ELSE Finite(s, rr, q)

\* The float nearest to s * (n / d) * 2^e (n >= 0, d > 0): the quotient is
\* taken to Prec + 2 bits or more and a sticky bit records a remainder.
RoundQuot(s, n, d, e) ==
  IF n = 0 THEN Zero
  ELSE
    LET sc == Max(0, Prec + 2 + BitLen(d) - BitLen(n))
        quo == (n * Pow2(sc)) \div d
        sticky == IF (n * Pow2(sc)) % d = 0 THEN 0 ELSE 1
    IN RoundInt(s, 2 * quo + sticky, e - sc - 1)

\* A decimal literal n/d of the source, as Python reads it.
Lit(n, d) == RoundQuot(Sgn(n), Abs(n), d, 0)

IsNone(x) == x.k = "none"
IsNaN(x) == x.k = "nan"
IsInf(x) == x.k = "inf"
IsFin(x) == x.k = "fin"
IsZero(x) == x.k = "fin" /\ x.m = 0

FNeg(x) == IF x.k \in {"fin", "inf"} THEN [x EXCEPT !.m = 0 - x.m] ELSE x

\* x * y
FMul(x, y) ==
  IF IsNaN(x) \/ IsNaN(y) THEN NaN
  ELSE IF IsInf(x) \/ IsInf(y)
       THEN IF IsZero(x) \/ IsZero(y) THEN NaN ELSE Inf(Sgn(x.m) * Sgn(y.m))
  ELSE RoundInt(Sgn(x.m) * Sgn(y.m), Abs(x.m) * Abs(y.m), x.e + y.e)

\* x / y for y # 0 (Python raises ZeroDivisionError before dividing by zero)
FDiv(x, y) ==
  IF IsNaN(x) \/ IsNaN(y) THEN NaN
  ELSE IF IsInf(x) THEN (IF IsInf(y) THEN NaN ELSE Inf(Sgn(x.m) * Sgn(y.m)))
  ELSE IF IsInf(y) THEN Zero
  ELSE RoundQuot(Sgn(x.m) * Sgn(y.m), Abs(x.m), Abs(y.m), x.e - y.e)

\* x + y
FAdd(x, y) ==
  IF IsNaN(x) \/ IsNaN(y) THEN NaN
  ELSE IF IsInf(x) THEN (IF IsInf(y) /\ y.m # x.m THEN NaN ELSE x)
  ELSE IF IsInf(y) THEN y
  ELSE IF IsZero(x) THEN y
  ELSE IF IsZero(y) THEN x
  ELSE
    LET hi == IF x.e >= y.e THEN x ELSE y
        lo == IF x.e >= y.e THEN y ELSE x
        d == hi.e - lo.e
    IN IF d > 2 * Prec + 1 THEN hi
       ELSE LET sum == hi.m * Pow2(d) + lo.m
            IN RoundInt(Sgn(sum), Abs(sum), lo.e)

\* x - y
FSub(x, y) == FAdd(x, FNeg(y))

\* Python's comparisons of a float with 0: every comparison with NaN is False
FLe0(x) == (IsFin(x) /\ x.m <= 0) \/ (IsInf(x) /\ x.m < 0)
FLt0(x) == (IsFin(x) /\ x.m < 0) \/ (IsInf(x) /\ x.m < 0)
FGt0(x) == (IsFin(x) /\ x.m > 0) \/ (IsInf(x) /\ x.m > 0)
FEq0(x) == IsZero(x)

\* x == y on floats (False whenever an operand is NaN)
FEq(x, y) == ~IsNaN(x) /\ ~IsNaN(y) /\ x = y

(***************************************************************************)
(* math.exp and math.log.  The C library computes them to within one unit  *)
(* in the last place; here they are evaluated in fixed point with FixBits  *)
(* fractional bits and then rounded, which is within 0.6 units.            *)
(***************************************************************************)
HalfBits == Prec + 3
FixBits == 2 * HalfBits
FixOne == Pow2(FixBits)

\* ln 2 and sqrt 2 in fixed point, from their values scaled by 2^30
Ln2Fix == (744261118 + Pow2(29 - FixBits)) \div Pow2(30 - FixBits)
Sqrt2Fix == (1518500250 + Pow2(29 - FixBits)) \div Pow2(30 - FixBits)

\* a * b / 2^FixBits for 0 <= a, b < 4 * FixOne, by halves so that no
\* product leaves 32 bits
MulFix(a, b) ==
  LET h == Pow2(HalfBits)
      ah == a \div h
      al == a % h
      bh == b \div h
      bl == b % h
  IN ah * bh + (ah * bl + al * bh) \div h + (al * bl) \div FixOne

\* sum of r^n / n! for n = i .. 14, given term = r^(i-1) / (i-1)!
RECURSIVE ExpSeries(_, _, _)
ExpSeries(r, term, i) ==
  IF i > 14 \/ term = 0 THEN 0
  ELSE LET t == MulFix(term, r) \div i IN t + ExpSeries(r, t, i + 1)

\* sum of z^(2j+1) / (2j+1) for j = i .. 9, given pow = z^(2i-1)
RECURSIVE AtanhSeries(_, _, _)
AtanhSeries(z2, pow, i) ==
  IF i > 9 \/ pow = 0 THEN 0
  ELSE LET p == MulFix(pow, z2)
       IN p \div (2 * i + 1) + AtanhSeries(z2, p, i + 1)

\* e^x; the infinity stands for a result too large for a float
FExp(x) ==
  IF IsNaN(x) THEN NaN
  ELSE IF IsInf(x) THEN (IF x.m > 0 THEN x ELSE Zero)
  ELSE IF IsZero(x) THEN Finite(1, 1, 0)
  ELSE
    LET t == x.e + BitLen(Abs(x.m)) - 1
    IN IF t < 0 - (Prec + 2) THEN Finite(1, 1, 0)
       ELSE IF t >= 5 THEN (IF x.m > 0 THEN Inf(1) ELSE Zero)
       ELSE
         LET fx == x.m * Pow2(x.e + FixBits)
             k == fx \div Ln2Fix
             r == fx - k * Ln2Fix
             sum == FixOne + ExpSeries(r, FixOne, 1)
         IN RoundInt(1, sum, k - FixBits)

\* ln x for x > 0
FLog(x) ==
  IF IsNaN(x) THEN NaN
  ELSE IF IsInf(x) THEN x
  ELSE
    LET len == BitLen(x.m)
        big == x.m * Pow2(FixBits - len + 1) > Sqrt2Fix
        j == IF big THEN len ELSE len - 1
        ex == x.e + j
        num == x.m - Pow2(j)
        den == x.m + Pow2(j)
        z == (Abs(num) * FixOne) \div den
        atanh == z + AtanhSeries(MulFix(z, z), z, 1)
        fixed == ex * Ln2Fix + Sgn(num) * 2 * atanh
    IN RoundInt(Sgn(fixed), Abs(fixed), 0 - FixBits)

(***************************************************************************)
(* Outcomes of a call: a returned value or a raised exception.             *)
(***************************************************************************)
Return(v) == [exc |-> "none", msg |-> "", val |-> v]
Raise(exc, msg) == [exc |-> exc, msg |-> msg, val |-> None]
NoOutcome == [exc |-> "nocall", msg |-> "", val |-> None]

Returned(out) == out.exc = "none"
Raised(out) == out.exc \notin {"none", "nocall"}

\* float / float in Python: ZeroDivisionError on a zero divisor
PyDiv(x, y) ==
  IF IsZero(y) THEN Raise("ZeroDivisionError", "float division by zero")
  ELSE Return(FDiv(x, y))

(***************************************************************************)
(* core/calculators/beer_lambert.py                                        *)
(***************************************************************************)
\* class CalculationMode(Enum): the values of its four members
ABSORBANCE == "absorbance"
CONCENTRATION == "concentration"
EPSILON == "epsilon"
PATH_LENGTH == "path_length"
CalculationMode == {ABSORBANCE, CONCENTRATION, EPSILON, PATH_LENGTH}

\* @dataclass BeerLambertInput: four Optional[float] fields
BeerLambertInput(eps, path, conc, absb) ==
  [epsilon_Minv_cm |-> eps, path_cm |-> path, conc_M |-> conc,
   absorbance |-> absb]

MsgAbsorbanceRequired ==
  "Epsilon, path length, and concentration are required to calculate absorbance"
MsgConcentrationRequired ==
  "Absorbance, epsilon, and path length are required to calculate concentration"
MsgEpsilonRequired ==
  "Absorbance, path length, and concentration are required to calculate epsilon"
MsgPathLengthRequired ==
  "Absorbance, epsilon, and concentration are required to calculate path length"
MsgAllPositive == "All parameters must be positive"
MsgEpsilonPathPositive == "Epsilon and path length must be positive"
MsgPathConcPositive == "Path length and concentration must be positive"
MsgEpsilonConcPositive == "Epsilon and concentration must be positive"
MsgAbsorbanceNegative == "Absorbance cannot be negative"
MsgUnknownMode == "Unknown calculation mode"

\* a faulty variant of the ABSORBANCE branch: the domain is checked before
\* the presence (C1 does not hold of it)
BranchAbsorbance_DomainFirst(params) ==
  LET eps == params.epsilon_Minv_cm
      path == params.path_cm
      conc == params.conc_M
  IN IF \E x \in {eps, path, conc} : FLe0(x)
       THEN Raise("ValueError", MsgAllPositive)
     ELSE IF \E x \in {eps, path, conc} : IsNone(x)
       THEN Raise("ValueError", MsgAbsorbanceRequired)
     ELSE Return(FMul(FMul(eps, path), conc))

\* lines 57-62: the ABSORBANCE branch
BranchAbsorbance(params) ==
  LET eps == params.epsilon_Minv_cm
      path == params.path_cm
      conc == params.conc_M
  IN IF \E x \in {eps, path, conc} : IsNone(x)
       THEN Raise("ValueError", MsgAbsorbanceRequired)
     ELSE IF \E x \in {eps, path, conc} : FLe0(x)
       THEN Raise("ValueError", MsgAllPositive)
     ELSE Return(FMul(FMul(eps, path), conc))

\* a faulty variant of the CONCENTRATION branch: the path length is left out
\* of the divisor (the round trip of C4 does not hold of it)
BranchConcentration_PathForgotten(params) ==
  LET absb == params.absorbance
      eps == params.epsilon_Minv_cm
      path == params.path_cm
  IN IF \E x \in {absb, eps, path} : IsNone(x)
       THEN Raise("ValueError", MsgConcentrationRequired)
     ELSE IF FLe0(eps) \/ FLe0(path)
       THEN Raise("ValueError", MsgEpsilonPathPositive)
     ELSE IF FLt0(absb)
       THEN Raise("ValueError", MsgAbsorbanceNegative)
     ELSE PyDiv(absb, eps)

\* lines 64-71: the CONCENTRATION branch
BranchConcentration(params) ==
  LET absb == params.absorbance
      eps == params.epsilon_Minv_cm
      path == params.path_cm
  IN IF \E x \in {absb, eps, path} : IsNone(x)
       THEN Raise("ValueError", MsgConcentrationRequired)
     ELSE IF FLe0(eps) \/ FLe0(path)
       THEN Raise("ValueError", MsgEpsilonPathPositive)
     ELSE IF FLt0(absb)
       THEN Raise("ValueError", MsgAbsorbanceNegative)
     ELSE PyDiv(absb, FMul(eps, path))

\* lines 73-80: the EPSILON branch
BranchEpsilon(params) ==
  LET absb == params.absorbance
      path == params.path_cm
      conc == params.conc_M
  IN IF \E x \in {absb, path, conc} : IsNone(x)
       THEN Raise("ValueError", MsgEpsilonRequired)
     ELSE IF FLe0(path) \/ FLe0(conc)
       THEN Raise("ValueError", MsgPathConcPositive)
     ELSE IF FLt0(absb)
       THEN Raise("ValueError", MsgAbsorbanceNegative)
     ELSE PyDiv(absb, FMul(path, conc))

\* a faulty variant of the PATH_LENGTH branch: the divisor is epsilon *
\* epsilon instead of epsilon * c (C3 does not hold of it)
BranchPathLength_WrongDivisor(params) ==
  LET absb == params.absorbance
      eps == params.epsilon_Minv_cm
      conc == params.conc_M
  IN IF \E x \in {absb, eps, conc} : IsNone(x)
       THEN Raise("ValueError", MsgPathLengthRequired)
     ELSE IF FLe0(eps) \/ FLe0(conc)
       THEN Raise("ValueError", MsgEpsilonConcPositive)
     ELSE IF FLt0(absb)
       THEN Raise("ValueError", MsgAbsorbanceNegative)
     ELSE PyDiv(absb, FMul(eps, eps))

\* lines 82-89: the PATH_LENGTH branch
BranchPathLength(params) ==
  LET absb == params.absorbance
      eps == params.epsilon_Minv_cm
      conc == params.conc_M
  IN IF \E x \in {absb, eps, conc} : IsNone(x)
       THEN Raise("ValueError", MsgPathLengthRequired)
     ELSE IF FLe0(eps) \/ FLe0(conc)
       THEN Raise("ValueError", MsgEpsilonConcPositive)
     ELSE IF FLt0(absb)
       THEN Raise("ValueError", MsgAbsorbanceNegative)
     ELSE PyDiv(absb, FMul(eps, conc))

calculate_beer_lambert(params, mode) ==
  IF mode = ABSORBANCE THEN BranchAbsorbance(params)
  ELSE IF mode = CONCENTRATION THEN BranchConcentration(params)
  ELSE IF mode = EPSILON THEN BranchEpsilon(params)
  ELSE IF mode = PATH_LENGTH THEN BranchPathLength(params)
  ELSE Raise("ValueError", MsgUnknownMode)

(***************************************************************************)
(* numpy on arrays of floats, as linear_regression and the view models     *)
(* use it.  An array is a sequence of floats.  numpy's float64 scalars     *)
(* divide by zero to an infinity or NaN instead of raising.                *)
(***************************************************************************)
RECURSIVE ISqrt(_)
ISqrt(n) ==
  IF n < 2 THEN n
  ELSE LET s == 2 * ISqrt(n \div 4)
       IN IF (s + 1) * (s + 1) <= n THEN s + 1 ELSE s

\* np.sqrt: the correctly rounded square root, NaN below zero
FSqrt(x) ==
  IF IsNaN(x) THEN NaN
  ELSE IF IsInf(x) THEN (IF x.m > 0 THEN x ELSE NaN)
  ELSE IF x.m < 0 THEN NaN
  ELSE IF x.m = 0 THEN Zero
  ELSE
    LET k0 == Max(0, 2 * Prec + 2 - BitLen(x.m))
        k == IF (x.e - k0) % 2 = 0 THEN k0 ELSE k0 + 1
        big == x.m * Pow2(k)
        r == ISqrt(big)
        sticky == IF r * r = big THEN 0 ELSE 1
    IN RoundInt(1, 2 * r + sticky, ((x.e - k) \div 2) - 1)

\* x / y on float64 scalars
NpDiv(x, y) ==
  IF IsZero(y)
    THEN (IF IsNaN(x) \/ IsZero(x) THEN NaN ELSE Inf(Sgn(x.m)))
  ELSE FDiv(x, y)

\* a Python int as a float
FromInt(n) == Lit(n, 1)

RECURSIVE SumLoop(_, _, _)
SumLoop(a, i, acc) ==
  IF i > Len(a) THEN acc ELSE SumLoop(a, i + 1, FAdd(acc, a[i]))

\* np.sum of a short array (fewer than 9 elements): the first element plus
\* the running sum of the others
NpSum(a) ==
  IF Len(a) = 0 THEN Zero ELSE FAdd(a[1], SumLoop(a, 2, Zero))

\* np.mean: the sum divided by the number of elements
NpMean(a) == NpDiv(NpSum(a), FromInt(Len(a)))

\* a - c, a - b, a * b, a ** 2 and m * a + c, element by element; the
\* second argument n is the number of elements
RECURSIVE ArrSubScalarTo(_, _, _)
ArrSubScalarTo(a, c, n) ==
  IF n = 0 THEN <<>>
  ELSE Append(ArrSubScalarTo(a, c, n - 1), FSub(a[n], c))
ArrSubScalar(a, c) == ArrSubScalarTo(a, c, Len(a))

RECURSIVE ArrSubTo(_, _, _)
ArrSubTo(a, b, n) ==
  IF n = 0 THEN <<>> ELSE Append(ArrSubTo(a, b, n - 1), FSub(a[n], b[n]))
ArrSub(a, b) == ArrSubTo(a, b, Len(a))

RECURSIVE ArrMulTo(_, _, _)
ArrMulTo(a, b, n) ==
  IF n = 0 THEN <<>> ELSE Append(ArrMulTo(a, b, n - 1), FMul(a[n], b[n]))
ArrMul(a, b) == ArrMulTo(a, b, Len(a))

ArrSquare(a) == ArrMul(a, a)

ArrLine(m, a, c) == [i \in 1..Len(a) |-> FAdd(FMul(m, a[i]), c)]

\* len(np.unique(a)) for an array without NaN
NpUniqueCount(a) == Cardinality({a[i] : i \in 1..Len(a)})

(***************************************************************************)
(* core/calculators/beer_lambert.py: linear_regression                     *)
(***************************************************************************)
\* @dataclass DataPoint
DataPoint(conc, absb) == [concentration |-> conc, absorbance |-> absb]

\* @dataclass LinearRegressionResult
LinearRegressionResult(slope, intercept, r_squared, std_error, epsilon) ==
  [slope |-> slope, intercept |-> intercept, r_squared |-> r_squared,
   std_error |-> std_error, epsilon |-> epsilon]

NoFit == LinearRegressionResult(None, None, None, None, None)
LrRaise(msg) == [exc |-> "ValueError", msg |-> msg, val |-> NoFit]
LrReturn(v) == [exc |-> "none", msg |-> "", val |-> v]

MsgAtLeastTwoPoints ==
  "At least 2 data points are required for linear regression"
MsgNonNegative == "Concentrations and absorbances must be non-negative"
MsgTwoDifferent == "Need at least 2 different concentration values"
MsgAllIdentical == "Cannot perform regression: all x values are identical"

FitX(data_points) ==
  [i \in 1..Len(data_points) |-> data_points[i].concentration]
FitY(data_points) ==
  [i \in 1..Len(data_points) |-> data_points[i].absorbance]

\* a variant of FitValidate that looks for two different concentrations
\* before it counts the points
FitValidate_UniqueFirst(data_points) ==
  LET x == FitX(data_points)
      y == FitY(data_points)
  IN IF NpUniqueCount(x) < 2 THEN MsgTwoDifferent
     ELSE IF Len(data_points) < 2 THEN MsgAtLeastTwoPoints
     ELSE IF \E i \in 1..Len(x) : FLt0(x[i]) \/ FLt0(y[i])
       THEN MsgNonNegative
     ELSE ""

\* lines 111-123: the message of the check that rejects the data, "" if none
FitValidate(data_points) ==
  LET x == FitX(data_points)
      y == FitY(data_points)
  IN IF Len(data_points) < 2 THEN MsgAtLeastTwoPoints
     ELSE IF \E i \in 1..Len(x) : FLt0(x[i]) \/ FLt0(y[i])
       THEN MsgNonNegative
     ELSE IF NpUniqueCount(x) < 2 THEN MsgTwoDifferent
     ELSE ""

\* a variant of FitDenominator that sums the deviations, not their squares
FitDenominator_NoSquare(x, x_mean) == NpSum(ArrSubScalar(x, x_mean))

\* lines 129-133
FitDenominator(x, x_mean) == NpSum(ArrSquare(ArrSubScalar(x, x_mean)))
FitNumerator(x, y, x_mean, y_mean) ==
  NpSum(ArrMul(ArrSubScalar(x, x_mean), ArrSubScalar(y, y_mean)))

\* lines 138-139
FitSlope(numerator, denominator) == NpDiv(numerator, denominator)
\* a variant of FitIntercept that leaves the slope out
FitIntercept_SlopeForgotten(y_mean, slope, x_mean) == FSub(y_mean, x_mean)
FitIntercept(y_mean, slope, x_mean) == FSub(y_mean, FMul(slope, x_mean))

\* lines 142-144
FitSsRes(x, y, slope, intercept) ==
  NpSum(ArrSquare(ArrSub(y, ArrLine(slope, x, intercept))))
FitSsTot(y, y_mean) == NpSum(ArrSquare(ArrSubScalar(y, y_mean)))

\* a variant of FitRSquared that divides whatever ss_tot is
FitRSquared_Unguarded(ss_res, ss_tot) ==
  FSub(FromInt(1), NpDiv(ss_res, ss_tot))

\* line 146
FitRSquared(ss_res, ss_tot) ==
  IF ~FEq0(ss_tot) THEN FSub(FromInt(1), NpDiv(ss_res, ss_tot)) ELSE Zero

\* lines 149-153
FitStdError(ss_res, n, denominator) ==
  IF n > 2
    THEN LET mse == NpDiv(ss_res, FromInt(n - 2))
         IN FSqrt(NpDiv(mse, denominator))
    ELSE Zero

\* a variant of FitEpsilon that divides by any path length that is given
FitEpsilon_AnyPath(slope, path_length) ==
  IF ~IsNone(path_length) THEN NpDiv(slope, path_length) ELSE None

\* line 156: a path length that is None or 0.0 is falsy
FitEpsilon(slope, path_length) ==
  IF ~IsNone(path_length) /\ ~IsZero(path_length) /\ FGt0(path_length)
    THEN NpDiv(slope, path_length)
    ELSE None

linear_regression(data_points, path_length) ==
  LET invalid == FitValidate(data_points)
  IN IF invalid # "" THEN LrRaise(invalid)
     ELSE
       LET x == FitX(data_points)
           y == FitY(data_points)
           n == Len(x)
           x_mean == NpMean(x)
           y_mean == NpMean(y)
           numerator == FitNumerator(x, y, x_mean, y_mean)
           denominator == FitDenominator(x, x_mean)
       IN IF FEq0(denominator) THEN LrRaise(MsgAllIdentical)
          ELSE
            LET slope == FitSlope(numerator, denominator)
                intercept == FitIntercept(y_mean, slope, x_mean)
                ss_res == FitSsRes(x, y, slope, intercept)
                ss_tot == FitSsTot(y, y_mean)
            IN LrReturn(LinearRegressionResult(
                          slope, intercept, FitRSquared(ss_res, ss_tot),
                          FitStdError(ss_res, n, denominator),
                          FitEpsilon(slope, path_length)))

(***************************************************************************)
(* np.linspace(start, stop, num): num samples from start to stop, the last *)
(* one set to stop itself.  Sample i is i * step + start with              *)
(* step = (stop - start) / (num - 1), or (i / (num - 1)) * (stop - start)  *)
(* + start when the step underflows to 0.                                  *)
(***************************************************************************)
MsgSamples == "Number of samples must be non-negative"

\* a variant of LinspaceSample that does not set the last sample to stop
LinspaceSample_LastComputed(start, stop, num, delta, step, i) ==
  LET div == num - 1
      y == IF div > 0
             THEN IF FEq0(step)
                    THEN FMul(NpDiv(FromInt(i), FromInt(div)), delta)
                    ELSE FMul(FromInt(i), step)
             ELSE FMul(FromInt(i), delta)
  IN FAdd(y, start)

\* sample i of num, given delta = stop - start and step = delta / (num - 1)
LinspaceSample(start, stop, num, delta, step, i) ==
  LET div == num - 1
      y == IF div > 0
             THEN IF FEq0(step)
                    THEN FMul(NpDiv(FromInt(i), FromInt(div)), delta)
                    ELSE FMul(FromInt(i), step)
             ELSE FMul(FromInt(i), delta)
  IN IF num > 1 /\ i = num - 1 THEN stop ELSE FAdd(y, start)

\* the samples, for num >= 0 (np.linspace raises ValueError below 0)
NpLinspace(start, stop, num) ==
  LET delta == FSub(stop, start)
      step == NpDiv(delta, FromInt(num - 1))
  IN [i \in 1..num |-> LinspaceSample(start, stop, num, delta, step, i - 1)]

(***************************************************************************)
(* core/calculators/beer_lambert.py: generate_standard_curve_points        *)
(***************************************************************************)
CurveRaise(msg) == [exc |-> "ValueError", msg |-> msg, val |-> <<>>]

\* lines 183-185: one DataPoint for each concentration
CurveOf(epsilon, path_length, concentrations) ==
  [i \in 1..Len(concentrations) |->
     LET conc == concentrations[i]
         abs_val == FMul(FMul(epsilon, path_length), conc)
     IN DataPoint(conc, abs_val)]

generate_standard_curve_points(epsilon, path_length, max_concentration, num_points) ==
  IF num_points < 0 THEN CurveRaise(MsgSamples)
  ELSE LET concentrations == NpLinspace(Zero, max_concentration, num_points)
       IN Return(CurveOf(epsilon, path_length, concentrations))

(***************************************************************************)
(* core/calculators/thermodynamics.py                                      *)
(* The Greek capital delta of the source's messages is written d.          *)
(***************************************************************************)
\* class ThermodynamicsMode(Enum): the values of its six members
GIBBS_FREE_ENERGY == "gibbs_free_energy"
ENTHALPY == "enthalpy"
ENTROPY == "entropy"
TEMPERATURE == "temperature"
EQUILIBRIUM_CONSTANT == "equilibrium_constant"
GIBBS_FROM_KEQR == "gibbs_from_keq"
ThermodynamicsMode ==
  {GIBBS_FREE_ENERGY, ENTHALPY, ENTROPY, TEMPERATURE, EQUILIBRIUM_CONSTANT,
   GIBBS_FROM_KEQR}

\* the literals 273.15, 1000 and R_GAS_CONSTANT = 8.314 as floats
CelsiusOffset == Lit(27315, 100)
Thousand == Lit(1000, 1)
R_GAS_CONSTANT == Lit(8314, 1000)

\* the keyword arguments of ThermodynamicsInput(...), absent ones None
ThermodynamicsArgs(dG, dH, dS, tK, tC, keq) ==
  [delta_G_kJ_mol |-> dG, delta_H_kJ_mol |-> dH, delta_S_J_mol_K |-> dS,
   temperature_K |-> tK, temperature_C |-> tC, equilibrium_constant |-> keq]

\* a faulty variant of __post_init__: Celsius, when given, overrides Kelvin
\* (C9 does not hold of it)
ThermodynamicsInput_CelsiusFirst(args) ==
  IF ~IsNone(args.temperature_C)
    THEN [args EXCEPT !.temperature_K = FAdd(args.temperature_C, CelsiusOffset)]
    ELSE args

\* ThermodynamicsInput.__post_init__ on the record built from the arguments
ThermodynamicsInput(args) ==
  IF ~IsNone(args.temperature_C) /\ IsNone(args.temperature_K)
    THEN [args EXCEPT !.temperature_K = FAdd(args.temperature_C, CelsiusOffset)]
    ELSE args

\* @dataclass ThermodynamicsResult; the values echoed in input_parameters
\* are kept as floats, their formatting as text is left out
ThermodynamicsResult(value, mode, inputs, units, equation) ==
  [calculated_value |-> value, calculation_mode |-> mode,
   input_parameters |-> inputs, units |-> units, equation_used |-> equation]

NoResult == ThermodynamicsResult(None, "", <<>>, "", "")

ThRaise(exc, msg) == [exc |-> exc, msg |-> msg, val |-> NoResult]

MsgGibbsRequires == "dG calculation requires dH, dS, and T"
MsgEnthalpyRequires == "dH calculation requires dG, dS, and T"
MsgEntropyRequires == "dS calculation requires dG, dH, and T"
MsgTemperatureRequires == "T calculation requires dG, dH, and dS"
MsgKRequires == "K calculation requires dG and T"
MsgGibbsFromKRequires == "dG from K calculation requires K and T"
MsgTemperaturePositive == "Temperature must be positive (> 0 K)"
MsgKPositive == "Equilibrium constant must be positive"
MsgEntropyZero == "Cannot calculate temperature when dS = 0"
MsgTemperatureNotPhysical ==
  "Calculated temperature is not physically meaningful (<= 0 K)"
MsgUnsupportedMode == "Unsupported calculation mode"

\* lines 84-106: the message of the mode's presence check when it fails,
\* "" when it passes
PresenceCheck(params, mode) ==
  LET dG == params.delta_G_kJ_mol
      dH == params.delta_H_kJ_mol
      dS == params.delta_S_J_mol_K
      tK == params.temperature_K
      keq == params.equilibrium_constant
  IN IF mode = GIBBS_FREE_ENERGY
       THEN (IF IsNone(dH) \/ IsNone(dS) \/ IsNone(tK)
               THEN MsgGibbsRequires ELSE "")
     ELSE IF mode = ENTHALPY
       THEN (IF IsNone(dG) \/ IsNone(dS) \/ IsNone(tK)
               THEN MsgEnthalpyRequires ELSE "")
     ELSE IF mode = ENTROPY
       THEN (IF IsNone(dG) \/ IsNone(dH) \/ IsNone(tK)
               THEN MsgEntropyRequires ELSE "")
     ELSE IF mode = TEMPERATURE
       THEN (IF IsNone(dG) \/ IsNone(dH) \/ IsNone(dS)
               THEN MsgTemperatureRequires ELSE "")
     ELSE IF mode = EQUILIBRIUM_CONSTANT
       THEN (IF IsNone(dG) \/ IsNone(tK) THEN MsgKRequires ELSE "")
     ELSE IF mode = GIBBS_FROM_KEQR
       THEN (IF IsNone(keq) \/ IsNone(tK)
               THEN MsgGibbsFromKRequires ELSE "")
     ELSE ""

\* a faulty variant of the checks of T and K: K is not checked (C6 does not
\* hold of it)
PositiveCheck_TemperatureOnly(params) ==
  IF ~IsNone(params.temperature_K) /\ FLe0(params.temperature_K)
    THEN MsgTemperaturePositive
  ELSE ""

\* lines 108-114: the message of the checks of T and K made in every mode
\* when one fails, "" when both pass
PositiveCheck(params) ==
  IF ~IsNone(params.temperature_K) /\ FLe0(params.temperature_K)
    THEN MsgTemperaturePositive
  ELSE IF ~IsNone(params.equilibrium_constant)
          /\ FLe0(params.equilibrium_constant)
    THEN MsgKPositive
  ELSE ""

\* a faulty variant of the validation: T and K are checked before the
\* presence of the mode's quantities (C5 does not hold of it)
validate_PositiveFirst(params, mode) ==
  IF PositiveCheck(params) # "" THEN PositiveCheck(params)
  ELSE PresenceCheck(params, mode)

\* the message of the ValueError it raises, "" when it returns
validate_thermodynamics_input(params, mode) ==
  IF PresenceCheck(params, mode) # "" THEN PresenceCheck(params, mode)
  ELSE PositiveCheck(params)

calculate_gibbs_free_energy(params) ==
  LET delta_S_kJ_mol_K == FDiv(params.delta_S_J_mol_K, Thousand)
      delta_G == FSub(params.delta_H_kJ_mol,
                      FMul(params.temperature_K, delta_S_kJ_mol_K))
  IN Return(ThermodynamicsResult(delta_G, GIBBS_FREE_ENERGY,
       <<<<"dH", params.delta_H_kJ_mol>>, <<"dS", params.delta_S_J_mol_K>>,
         <<"T", params.temperature_K>>>>,
       "kJ/mol", "dG = dH - TdS"))

\* a faulty variant of _calculate_enthalpy: dS is not converted to kJ (C7
\* does not hold of it)
calculate_enthalpy_NoUnitFactor(params) ==
  LET delta_H == FAdd(params.delta_G_kJ_mol,
                      FMul(params.temperature_K, params.delta_S_J_mol_K))
  IN Return(ThermodynamicsResult(delta_H, ENTHALPY,
       <<<<"dG", params.delta_G_kJ_mol>>, <<"dS", params.delta_S_J_mol_K>>,
         <<"T", params.temperature_K>>>>,
       "kJ/mol", "dH = dG + TdS"))

calculate_enthalpy(params) ==
  LET delta_S_kJ_mol_K == FDiv(params.delta_S_J_mol_K, Thousand)
      delta_H == FAdd(params.delta_G_kJ_mol,
                      FMul(params.temperature_K, delta_S_kJ_mol_K))
  IN Return(ThermodynamicsResult(delta_H, ENTHALPY,
       <<<<"dG", params.delta_G_kJ_mol>>, <<"dS", params.delta_S_J_mol_K>>,
         <<"T", params.temperature_K>>>>,
       "kJ/mol", "dH = dG + TdS"))

\* a faulty variant of _calculate_entropy: the quotient is left in kJ (the
\* round trip of C10 does not hold of it)
calculate_entropy_NoUnitFactor(params) ==
  LET diff == FSub(params.delta_H_kJ_mol, params.delta_G_kJ_mol)
  IN IF IsZero(params.temperature_K)
       THEN ThRaise("ZeroDivisionError", "float division by zero")
     ELSE Return(ThermodynamicsResult(FDiv(diff, params.temperature_K),
            ENTROPY,
            <<<<"dG", params.delta_G_kJ_mol>>, <<"dH", params.delta_H_kJ_mol>>,
              <<"T", params.temperature_K>>>>,
            "J/mol.K", "dS = (dH - dG) / T"))

calculate_entropy(params) ==
  LET diff == FSub(params.delta_H_kJ_mol, params.delta_G_kJ_mol)
  IN IF IsZero(params.temperature_K)
       THEN ThRaise("ZeroDivisionError", "float division by zero")
     ELSE
       LET delta_S_kJ_mol_K == FDiv(diff, params.temperature_K)
           delta_S_J_mol_K == FMul(delta_S_kJ_mol_K, Thousand)
       IN Return(ThermodynamicsResult(delta_S_J_mol_K, ENTROPY,
            <<<<"dG", params.delta_G_kJ_mol>>, <<"dH", params.delta_H_kJ_mol>>,
              <<"T", params.temperature_K>>>>,
            "J/mol.K", "dS = (dH - dG) / T"))

calculate_temperature(params) ==
  IF FEq0(params.delta_S_J_mol_K)
    THEN ThRaise("ValueError", MsgEntropyZero)
  ELSE
    LET delta_S_kJ_mol_K == FDiv(params.delta_S_J_mol_K, Thousand)
        diff == FSub(params.delta_H_kJ_mol, params.delta_G_kJ_mol)
    IN IF IsZero(delta_S_kJ_mol_K)
         THEN ThRaise("ZeroDivisionError", "float division by zero")
       ELSE
         LET temperature == FDiv(diff, delta_S_kJ_mol_K)
         IN IF FLe0(temperature)
              THEN ThRaise("ValueError", MsgTemperatureNotPhysical)
            ELSE Return(ThermodynamicsResult(temperature, TEMPERATURE,
                   <<<<"dG", params.delta_G_kJ_mol>>,
                     <<"dH", params.delta_H_kJ_mol>>,
                     <<"dS", params.delta_S_J_mol_K>>>>,
                   "K", "T = (dH - dG) / dS"))

calculate_equilibrium_constant(params) ==
  LET delta_G_J_mol == FMul(params.delta_G_kJ_mol, Thousand)
      divisor == FMul(R_GAS_CONSTANT, params.temperature_K)
  IN IF IsZero(divisor)
       THEN ThRaise("ZeroDivisionError", "float division by zero")
     ELSE
       LET exponent == FDiv(FNeg(delta_G_J_mol), divisor)
           K == FExp(exponent)
       IN IF IsInf(K) /\ ~IsInf(exponent)
            THEN ThRaise("OverflowError", "math range error")
          ELSE Return(ThermodynamicsResult(K, EQUILIBRIUM_CONSTANT,
                 <<<<"dG", params.delta_G_kJ_mol>>,
                   <<"T", params.temperature_K>>>>,
                 "dimensionless", "K = exp(-dG/RT)"))

\* a faulty variant of _calculate_gibbs_from_keq: the minus sign of -R is
\* lost (the round trip of C11 does not hold of it)
calculate_gibbs_from_keq_SignLost(params) ==
  IF FLe0(params.equilibrium_constant)
    THEN ThRaise("ValueError", "math domain error")
  ELSE
    LET delta_G_J_mol ==
          FMul(FMul(R_GAS_CONSTANT, params.temperature_K),
               FLog(params.equilibrium_constant))
        delta_G_kJ_mol == FDiv(delta_G_J_mol, Thousand)
    IN Return(ThermodynamicsResult(delta_G_kJ_mol, GIBBS_FROM_KEQR,
         <<<<"K", params.equilibrium_constant>>,
           <<"T", params.temperature_K>>>>,
         "kJ/mol", "dG = -RT ln(K)"))

calculate_gibbs_from_keq(params) ==
  IF FLe0(params.equilibrium_constant)
    THEN ThRaise("ValueError", "math domain error")
  ELSE
    LET delta_G_J_mol ==
          FMul(FMul(FNeg(R_GAS_CONSTANT), params.temperature_K),
               FLog(params.equilibrium_constant))
        delta_G_kJ_mol == FDiv(delta_G_J_mol, Thousand)
    IN Return(ThermodynamicsResult(delta_G_kJ_mol, GIBBS_FROM_KEQR,
         <<<<"K", params.equilibrium_constant>>,
           <<"T", params.temperature_K>>>>,
         "kJ/mol", "dG = -RT ln(K)"))

calculate_thermodynamics(params, mode) ==
  IF validate_thermodynamics_input(params, mode) # ""
    THEN ThRaise("ValueError", validate_thermodynamics_input(params, mode))
  ELSE IF mode = GIBBS_FREE_ENERGY THEN calculate_gibbs_free_energy(params)
  ELSE IF mode = ENTHALPY THEN calculate_enthalpy(params)
  ELSE IF mode = ENTROPY THEN calculate_entropy(params)
  ELSE IF mode = TEMPERATURE THEN calculate_temperature(params)
  ELSE IF mode = EQUILIBRIUM_CONSTANT
    THEN calculate_equilibrium_constant(params)
  ELSE IF mode = GIBBS_FROM_KEQR THEN calculate_gibbs_from_keq(params)
  ELSE ThRaise("ValueError", MsgUnsupportedMode)

(***************************************************************************)
(* viewmodels/thermodynamics_vm.py: ThermodynamicsVM.generate_van_hoff_plot *)
(* A data point is a tuple <<temperature_K, equilibrium_constant>>.  The   *)
(* method returns nothing: it emits plot_data_updated with the plot data,  *)
(* or error with a message.                                                *)
(***************************************************************************)
\* x < y for finite floats
FLt(x, y) == FLt0(FSub(x, y))

RECURSIVE ArrMinTo(_, _)
ArrMinTo(a, n) ==
  IF n = 1 THEN a[1]
  ELSE LET rest == ArrMinTo(a, n - 1)
       IN IF FLt(a[n], rest) THEN a[n] ELSE rest
\* inv_T.min()
ArrMin(a) == ArrMinTo(a, Len(a))

RECURSIVE ArrMaxTo(_, _)
ArrMaxTo(a, n) ==
  IF n = 1 THEN a[1]
  ELSE LET rest == ArrMaxTo(a, n - 1)
       IN IF FLt(rest, a[n]) THEN a[n] ELSE rest
\* inv_T.max()
ArrMax(a) == ArrMaxTo(a, Len(a))

RECURSIVE ArrInverseTo(_, _)
ArrInverseTo(a, n) ==
  IF n = 0 THEN <<>>
  ELSE Append(ArrInverseTo(a, n - 1), NpDiv(FromInt(1), a[n]))
\* 1 / T_array
ArrInverse(a) == ArrInverseTo(a, Len(a))

RECURSIVE ArrLogTo(_, _)
ArrLogTo(a, n) ==
  IF n = 0 THEN <<>> ELSE Append(ArrLogTo(a, n - 1), FLog(a[n]))
\* np.log(K_array), for K > 0
ArrLog(a) == ArrLogTo(a, Len(a))

\* list(zip(a, b))
ArrZip(a, b) == [i \in 1..Len(a) |-> <<a[i], b[i]>>]

\* the unit in the last place of a finite x, and x moved by d of them
UlpOf(x) ==
  [k |-> "fin", m |-> 1, e |-> Max(x.e + BitLen(Abs(x.m)) - Prec, Qmin)]
Nudge(x, d) ==
  IF IsFin(x) /\ ~IsZero(x) /\ d # 0
    THEN FAdd(x, FMul(FromInt(d), UlpOf(x)))
    ELSE x

\* The line of np.polyfit(x, y, 1) on finite arrays of 2 or more elements.
\* polyfit solves the least-squares problem for the columns x and 1, each
\* scaled to unit length, by a singular value decomposition.  With two
\* different x the solution is the least-squares line; with all x equal to
\* one a the columns coincide, polyfit warns (RankWarning) without raising
\* and returns the solution of least norm, slope = mean(y) / (2a) and
\* intercept = mean(y) / 2.
PolyfitLine(x, y) ==
  IF NpUniqueCount(x) < 2
    THEN [slope |-> NpDiv(NpMean(y), FMul(FromInt(2), x[1])),
          intercept |-> NpDiv(NpMean(y), FromInt(2))]
  ELSE LET x_mean == NpMean(x)
           y_mean == NpMean(y)
           slope == FitSlope(FitNumerator(x, y, x_mean, y_mean),
                             FitDenominator(x, x_mean))
       IN [slope |-> slope, intercept |-> FitIntercept(y_mean, slope, x_mean)]

\* the rounding of the decomposition is the library's: each coefficient is
\* within PolyfitUlps units in the last place of the line, err says where
PolyfitUlps == 1
PolyfitErrors == ((0 - PolyfitUlps)..PolyfitUlps) \X ((0 - PolyfitUlps)..PolyfitUlps)
np_polyfit(x, y, err) ==
  LET line == PolyfitLine(x, y)
  IN [slope |-> Nudge(line.slope, err[1]),
      intercept |-> Nudge(line.intercept, err[2])]

\* lines 167-171
calculate_r_squared(y_actual, y_predicted) ==
  LET ss_res == NpSum(ArrSquare(ArrSub(y_actual, y_predicted)))
      ss_tot == NpSum(ArrSquare(ArrSubScalar(y_actual, NpMean(y_actual))))
  IN IF ~FEq0(ss_tot) THEN FSub(FromInt(1), NpDiv(ss_res, ss_tot)) ELSE Zero

\* line 138: R = 8.314, and line 143: the points of the regression line
VanHoffR == Lit(8314, 1000)
LinePoints == 100

MsgVanHoffTwoPoints == "At least 2 data points required for van't Hoff plot"
MsgVanHoffPositive ==
  "Temperature and equilibrium constant must be positive"
VanHoffPrefix == "van't Hoff plot error: "

VanHoffResults(slope, intercept, delta_H, delta_S, r_squared) ==
  [slope |-> slope, intercept |-> intercept, delta_H |-> delta_H,
   delta_S |-> delta_S, r_squared |-> r_squared]

PlotData(data_points, regression_line, results) ==
  [data_points |-> data_points, regression_line |-> regression_line,
   xlabel |-> "1/T (K^-1)", ylabel |-> "ln(K)", title |-> "van't Hoff Plot",
   plot_type |-> "van_hoff", results |-> results]

NoPlot ==
  [data_points |-> <<>>, regression_line |-> <<>>, xlabel |-> "",
   ylabel |-> "", title |-> "", plot_type |-> "",
   results |-> VanHoffResults(None, None, None, None, None)]

\* what the method emits; transformed tells whether 1 / T_array and
\* np.log(K_array) (lines 131-132) were evaluated
EmitError(msg) ==
  [signal |-> "error", msg |-> VanHoffPrefix \o msg, plot |-> NoPlot,
   transformed |-> FALSE]
EmitPlot(plot_data) ==
  [signal |-> "plot_data_updated", msg |-> "", plot |-> plot_data,
   transformed |-> TRUE]

VanHoffT(data_points) == [i \in 1..Len(data_points) |-> data_points[i][1]]
VanHoffK(data_points) == [i \in 1..Len(data_points) |-> data_points[i][2]]

\* a variant of VanHoffValidate that looks at the signs before the size
VanHoffValidate_PositiveFirst(data_points) ==
  LET T_array == VanHoffT(data_points)
      K_array == VanHoffK(data_points)
  IN IF \E i \in 1..Len(data_points) :
          FLe0(T_array[i]) \/ FLe0(K_array[i])
       THEN MsgVanHoffPositive
     ELSE IF Len(data_points) < 2 THEN MsgVanHoffTwoPoints
     ELSE ""

\* lines 117-128: the message of the check that rejects the data, "" if none
VanHoffValidate(data_points) ==
  LET T_array == VanHoffT(data_points)
      K_array == VanHoffK(data_points)
  IN IF Len(data_points) < 2 THEN MsgVanHoffTwoPoints
     ELSE IF \E i \in 1..Len(data_points) :
               FLe0(T_array[i]) \/ FLe0(K_array[i])
       THEN MsgVanHoffPositive
     ELSE ""

\* a variant of VanHoffDeltaH that stays in J/mol
VanHoffDeltaH_NoUnitFactor(slope) == FMul(FNeg(slope), VanHoffR)

\* lines 138-140
VanHoffDeltaH(slope) == NpDiv(FMul(FNeg(slope), VanHoffR), FromInt(1000))
VanHoffDeltaS(intercept) == FMul(intercept, VanHoffR)

\* the value of a one-element set: {e : v \in {d}} computes d once and
\* names it v in e, as an assignment does
The(S) == CHOOSE v \in S : TRUE

\* lines 143-144
VanHoffLine(inv_T, slope, intercept) ==
  The({ArrZip(inv_T_line, ArrLine(slope, inv_T_line, intercept)) :
         inv_T_line \in {The({NpLinspace(lo, hi, LinePoints) :
                                lo \in {ArrMin(inv_T)},
                                hi \in {ArrMax(inv_T)}})}})

\* lines 138-162, with the arrays of lines 131-132 and the coefficients of
\* line 135
VanHoffEmit(inv_T, ln_K, slope, intercept) ==
  EmitPlot(PlotData(
    ArrZip(inv_T, ln_K),
    VanHoffLine(inv_T, slope, intercept),
    VanHoffResults(
      slope, intercept, VanHoffDeltaH(slope), VanHoffDeltaS(intercept),
      calculate_r_squared(ln_K, ArrLine(slope, inv_T, intercept)))))

\* lines 135-162, with the arrays of lines 131-132
VanHoffFit(inv_T, ln_K, err) ==
  The({VanHoffEmit(inv_T, ln_K, fit.slope, fit.intercept) :
         fit \in {np_polyfit(inv_T, ln_K, err)}})

generate_van_hoff_plot(data_points, err) ==
  LET invalid == VanHoffValidate(data_points)
  IN IF invalid # "" THEN EmitError(invalid)
     ELSE The({VanHoffFit(inv_T, ln_K, err) :
                 inv_T \in {ArrInverse(VanHoffT(data_points))},
                 ln_K \in {ArrLog(VanHoffK(data_points))}})

(***************************************************************************)
(* viewmodels/thermodynamics_vm.py: the two temperature sweeps,            *)
(* generate_temperature_plot and generate_equilibrium_plot.  temp_range is *)
(* a tuple; each method emits plot_data_updated with arrays x and y, or    *)
(* error with a message.                                                   *)
(***************************************************************************)
\* lines 56 and 86: the number of temperatures of a sweep
SweepPoints == 100
\* line 90
SweepR == Lit(8314, 1000)
SweepPrefix == "Plot generation error: "
MsgUnpackFew(n) ==
  "not enough values to unpack (expected 2, got " \o ToString(n) \o ")"
MsgUnpackMany == "too many values to unpack (expected 2)"

NoSweepPlot ==
  [x |-> <<>>, y |-> <<>>, xlabel |-> "", ylabel |-> "", title |-> <<>>,
   plot_type |-> "", log_scale_y |-> FALSE]
SweepError(msg) ==
  [signal |-> "error", msg |-> SweepPrefix \o msg, plot |-> NoSweepPlot]
SweepPlot(plot_data) ==
  [signal |-> "plot_data_updated", msg |-> "", plot |-> plot_data]

\* lines 55 and 85, t_min, t_max = temp_range: the message of the
\* ValueError, "" if the tuple has two elements
SweepUnpack(temp_range) ==
  IF Len(temp_range) < 2 THEN MsgUnpackFew(Len(temp_range))
  ELSE IF Len(temp_range) > 2 THEN MsgUnpackMany
  ELSE ""

\* line 59: delta_H - temperatures * delta_S_kJ
SweepGibbs(delta_H, temperatures, delta_S_kJ) ==
  [i \in 1..Len(temperatures) |->
     FSub(delta_H, FMul(temperatures[i], delta_S_kJ))]

\* line 92: np.exp(-delta_G_J / (R * temperatures)), element by element
\* on the array; a zero divisor gives inf or nan, np.exp of them inf, 0 or
\* nan, and an overflow inf
SweepEquilibrium(delta_G_J, temperatures) ==
  [i \in 1..Len(temperatures) |->
     FExp(NpDiv(FNeg(delta_G_J), FMul(SweepR, temperatures[i])))]

\* lines 44-73; the title is an f-string of the two arguments
generate_temperature_plot(delta_H, delta_S, temp_range) ==
  LET invalid == SweepUnpack(temp_range)
  IN IF invalid # "" THEN SweepError(invalid)
     ELSE The({SweepPlot(
                 [x |-> temperatures,
                  y |-> SweepGibbs(delta_H, temperatures, delta_S_kJ),
                  xlabel |-> "Temperature (K)", ylabel |-> "dG (kJ/mol)",
                  title |-> <<"dG vs Temperature", delta_H, delta_S>>,
                  plot_type |-> "temperature_dependence",
                  log_scale_y |-> FALSE]) :
               temperatures \in
                 {NpLinspace(temp_range[1], temp_range[2], SweepPoints)},
               delta_S_kJ \in {FDiv(delta_S, FromInt(1000))}})

\* lines 75-107
generate_equilibrium_plot(delta_G, temp_range) ==
  LET invalid == SweepUnpack(temp_range)
  IN IF invalid # "" THEN SweepError(invalid)
     ELSE The({SweepPlot(
                 [x |-> temperatures,
                  y |-> SweepEquilibrium(delta_G_J, temperatures),
                  xlabel |-> "Temperature (K)",
                  ylabel |-> "Equilibrium Constant (K)",
                  title |-> <<"Equilibrium Constant vs Temperature",
                              delta_G>>,
                  plot_type |-> "equilibrium_temperature",
                  log_scale_y |-> TRUE]) :
               temperatures \in
                 {NpLinspace(temp_range[1], temp_range[2], SweepPoints)},
               delta_G_J \in {FMul(delta_G, FromInt(1000))}})

(***************************************************************************)
(* viewmodels/beer_lambert_vm.py: BeerLambertVM.  The object keeps a       *)
(* calculation mode, a list of data points and a path length; a method     *)
(* gives the object after the call and the signals it emitted, in order.   *)
(***************************************************************************)
BeerLambertVM(mode, data_points, path_length) ==
  [calculation_mode |-> mode, data_points |-> data_points,
   path_length |-> path_length]

\* lines 18-22: __init__
NewBeerLambertVM == BeerLambertVM(ABSORBANCE, <<>>, Lit(1, 1))

Emit(signal, payload) == [signal |-> signal, payload |-> payload]
VmDone(vm, emitted) == [vm |-> vm, emitted |-> emitted]

MsgVmNonNegative == "Concentration and absorbance must be non-negative"
MsgVmTwoPoints == "At least 2 data points are required for regression"

\* lines 28-32: the setter of calculation_mode
set_calculation_mode(vm, mode) ==
  IF vm.calculation_mode # mode
    THEN VmDone([vm EXCEPT !.calculation_mode = mode],
                <<Emit("calculation_mode_changed", mode)>>)
    ELSE VmDone(vm, <<>>)

\* a variant of set_path_length that takes every value but None
set_path_length_Unchecked(vm, value) ==
  IF ~IsNone(value) THEN VmDone([vm EXCEPT !.path_length = value], <<>>)
  ELSE VmDone(vm, <<>>)

\* lines 42-45: the setter of path_length; None, 0.0 and nan > 0 are false
set_path_length(vm, value) ==
  IF ~IsNone(value) /\ ~IsZero(value) /\ FGt0(value)
    THEN VmDone([vm EXCEPT !.path_length = value], <<>>)
    ELSE VmDone(vm, <<>>)

\* lines 47-70: kwargs is a record of the four keywords, None where the
\* caller gave none
VmKwargs(epsilon, path_length, concentration, absorbance) ==
  [epsilon |-> epsilon, path_length |-> path_length,
   concentration |-> concentration, absorbance |-> absorbance]
vm_calculate_parameter(vm, kwargs) ==
  LET params == BeerLambertInput(kwargs.epsilon, kwargs.path_length,
                                 kwargs.concentration, kwargs.absorbance)
      result == calculate_beer_lambert(params, vm.calculation_mode)
  IN IF Returned(result)
       THEN VmDone(vm, <<Emit("output_changed", result.val)>>)
       ELSE VmDone(vm, <<Emit("error", result.msg)>>)

\* lines 159-172: the two ends of the regression line
RegressionLine(data_points, regression_result) ==
  LET x == FitX(data_points)
      x_min == ArrMin(x)
      x_max == ArrMax(x)
      x_range == FSub(x_max, x_min)
      below == FSub(x_min, FMul(Lit(1, 10), x_range))
      x_start == IF FGt0(below) THEN below ELSE Zero
      x_end == FAdd(x_max, FMul(Lit(1, 10), x_range))
      y_of(x_l) == FAdd(FMul(regression_result.slope, x_l),
                        regression_result.intercept)
  IN <<<<x_start, y_of(x_start)>>, <<x_end, y_of(x_end)>>>>

\* lines 147-174: the signal _update_curve_visualization emits; a
\* regression result is an object, so it is true whenever one is given
update_curve_visualization(data_points, include_regression, regression_result) ==
  IF data_points = <<>> THEN <<Emit("curve_points_updated", <<>>)>>
  ELSE <<Emit("curve_points_updated",
              <<[data_points |->
                   [i \in 1..Len(data_points) |->
                      <<data_points[i].concentration,
                        data_points[i].absorbance>>],
                 regression_line |->
                   IF include_regression
                     THEN RegressionLine(data_points, regression_result)
                     ELSE None]>>)>>

\* lines 72-85
add_data_point(vm, concentration, absorbance) ==
  IF FLt0(concentration) \/ FLt0(absorbance)
    THEN VmDone(vm, <<Emit("error", MsgVmNonNegative)>>)
    ELSE LET data_points == Append(vm.data_points,
                                   DataPoint(concentration, absorbance))
         IN VmDone([vm EXCEPT !.data_points = data_points],
                   update_curve_visualization(data_points, FALSE, NoFit))

\* list.pop(index) for 0 <= index < len
ListPop(list, index) ==
  [i \in 1..(Len(list) - 1) |-> IF i <= index THEN list[i] ELSE list[i + 1]]

\* lines 87-94
remove_data_point(vm, index) ==
  IF 0 <= index /\ index < Len(vm.data_points)
    THEN LET data_points == ListPop(vm.data_points, index)
         IN VmDone([vm EXCEPT !.data_points = data_points],
                   update_curve_visualization(data_points, FALSE, NoFit))
    ELSE VmDone(vm, <<>>)

\* lines 96-99
clear_data_points(vm) ==
  VmDone([vm EXCEPT !.data_points = <<>>],
         <<Emit("curve_points_updated", <<>>)>>)

\* a variant of perform_linear_regression that redraws the curve before
\* it announces the result
perform_linear_regression_CurveFirst(vm) ==
  IF Len(vm.data_points) < 2
    THEN VmDone(vm, <<Emit("error", MsgVmTwoPoints)>>)
  ELSE The({
          IF Raised(result)
            THEN VmDone(vm, <<Emit("error", result.msg)>>)
            ELSE VmDone(vm,
                   update_curve_visualization(vm.data_points, TRUE,
                                              result.val)
                     \o <<Emit("regression_completed", result.val)>>) :
          result \in {linear_regression(vm.data_points, vm.path_length)}})

\* lines 101-114
perform_linear_regression(vm) ==
  IF Len(vm.data_points) < 2
    THEN VmDone(vm, <<Emit("error", MsgVmTwoPoints)>>)
  ELSE The({
          IF Raised(result)
            THEN VmDone(vm, <<Emit("error", result.msg)>>)
            ELSE VmDone(vm,
                   <<Emit("regression_completed", result.val)>>
                     \o update_curve_visualization(vm.data_points, TRUE,
                                                   result.val)) :
          result \in {linear_regression(vm.data_points, vm.path_length)}})

\* lines 176-183
compute(vm, epsilon, path, conc) ==
  vm_calculate_parameter(vm, VmKwargs(epsilon, path, conc, None))

(***************************************************************************)
(* ui/modules/beer_lambert_view.py: StandardCurveTab, and                  *)
(* ui/modules/thermodynamics_view.py: VanHoffTab.  Each tab shows its data *)
(* points in a table, one row per point with a Remove button.  The curve   *)
(* tab keeps the points in its BeerLambertVM, the van't Hoff tab in its    *)
(* own list data_points.  The plots the tabs draw are left out.            *)
(***************************************************************************)
\* a cell text: the format f"{value:<spec>}" applied to the value
Formatted(spec, value) == <<spec, value>>

\* a table row: its two cell texts and the row number its Remove button
\* passes, the value row had when the lambda of the button was made
TableRow(cells, row) == [cells |-> cells, button |-> row]

\* QTableWidget.removeRow(row): a row outside the table removes nothing
RemoveRow(rows, row) ==
  IF 0 <= row /\ row < Len(rows) THEN ListPop(rows, row) ELSE rows

TabState(vm, data_points, rows) ==
  [vm |-> vm, data_points |-> data_points, rows |-> rows]
NewTab == TabState(NewBeerLambertVM, <<>>, <<>>)

\* beer_lambert_view.py lines 661-684
curve_add_data_point(t, conc, abs_val) ==
  [t EXCEPT
     !.vm = add_data_point(t.vm, conc, abs_val).vm,
     !.rows = Append(@, TableRow(<<Formatted(".2e", conc),
                                   Formatted(".4f", abs_val)>>,
                                 Len(t.rows)))]

\* lines 686-689
curve_remove_data_point(t, row) ==
  [t EXCEPT !.vm = remove_data_point(t.vm, row).vm,
            !.rows = RemoveRow(@, row)]

\* lines 691-695
curve_clear_all_data(t) ==
  [t EXCEPT !.vm = clear_data_points(t.vm).vm, !.rows = <<>>]

\* thermodynamics_view.py lines 579-602
van_hoff_add_data_point(t, temp, K_val) ==
  [t EXCEPT
     !.data_points = Append(@, <<temp, K_val>>),
     !.rows = Append(@, TableRow(<<Formatted(".1f", temp),
                                   Formatted(".2e", K_val)>>,
                                 Len(t.rows)))]

\* lines 604-608
van_hoff_remove_data_point(t, row) ==
  IF 0 <= row /\ row < Len(t.data_points)
    THEN [t EXCEPT !.data_points = ListPop(@, row),
                   !.rows = RemoveRow(@, row)]
    ELSE t

\* lines 610-614
van_hoff_clear_all_data(t) == [t EXCEPT !.data_points = <<>>, !.rows = <<>>]

(***************************************************************************)
(* viewmodels/thermodynamics_vm.py: ThermodynamicsViewModel, its mode, its *)
(* last result and calculate_parameter.  calculation_mode is a plain       *)
(* attribute that the view assigns; last_result = None is NoResult here.   *)
(***************************************************************************)
ThermodynamicsViewModel(mode, last_result) ==
  [calculation_mode |-> mode, last_result |-> last_result]

\* lines 18-21: __init__
NewThermodynamicsViewModel ==
  ThermodynamicsViewModel(GIBBS_FREE_ENERGY, NoResult)

\* a variant of th_calculate_parameter that forgets the last result when
\* the calculation fails
th_calculate_parameter_Forgetful(vm, kwargs) ==
  The({IF Returned(result)
         THEN VmDone([vm EXCEPT !.last_result = result.val],
                     <<Emit("calculation_completed", result.val)>>)
         ELSE VmDone([vm EXCEPT !.last_result = NoResult],
                     <<Emit("error", result.msg)>>) :
       result \in {calculate_thermodynamics(ThermodynamicsInput(kwargs),
                                            vm.calculation_mode)}})

\* lines 23-42: kwargs holds the six keywords of ThermodynamicsInput, None
\* where the caller gave none
th_calculate_parameter(vm, kwargs) ==
  The({IF Returned(result)
         THEN VmDone([vm EXCEPT !.last_result = result.val],
                     <<Emit("calculation_completed", result.val)>>)
         ELSE VmDone(vm, <<Emit("error", result.msg)>>) :
       result \in {calculate_thermodynamics(ThermodynamicsInput(kwargs),
                                            vm.calculation_mode)}})

(***************************************************************************)
(* The caller's list across a regression call.  Python passes the list     *)
(* object itself; what the caller holds after the call is what the body    *)
(* left in it.                                                             *)
(***************************************************************************)
\* a variant of FitLeaves that pops the first point
FitLeaves_Popped(data_points) ==
  IF data_points = <<>> THEN <<>> ELSE Tail(data_points)

\* beer_lambert.py lines 107-164: data_points is iterated by the two
\* comprehensions of lines 107-108 and its length is taken (lines 111,
\* 128); no statement writes to it or to a point
FitLeaves(data_points) == data_points

\* thermodynamics_vm.py lines 117-120: len(data_points) and
\* zip(*data_points) read the list; the arrays are new objects
VanHoffLeaves(data_points) == data_points

(***************************************************************************)
(* The state: the engine keeps none, so the state is the caller's record   *)
(* of the calls made.  bl is a call of calculate_beer_lambert and bl2 a    *)
(* second call that feeds the value bl returned back in place of one of    *)
(* its known inputs; th and th2 are the same for calculate_thermodynamics  *)
(* on a ThermodynamicsInput built from keyword arguments.  lr is a call of  *)
(* linear_regression, gc a call of generate_standard_curve_points and vh   *)
(* a call of the view model's generate_van_hoff_plot.                      *)
(***************************************************************************)
VARIABLES pc, bl, bl2, th, th2, lr, gc, vh, cs, sw, blvm, tab, tvm, mw

vars == <<pc, bl, bl2, th, th2, lr, gc, vh, cs, sw, blvm, tab, tvm, mw>>

\* the largest finite float and the smallest positive one
Huge == [k |-> "fin", m |-> Pow2(Prec) - 1, e |-> Emax - Prec + 1]
Tiny == [k |-> "fin", m |-> 1, e |-> Qmin]

\* a mode argument that is no member of the enumeration
OtherMode == "other"

BLValues ==
  {None, NaN, Inf(1), Lit(0 - 3, 1), Zero, Tiny, Lit(3, 1), Lit(7, 10),
   Lit(53, 10), Huge}

NoParams == BeerLambertInput(None, None, None, None)
NoCall == [mode |-> "", params |-> NoParams, out |-> NoOutcome]

NoArgs == ThermodynamicsArgs(None, None, None, None, None, None)
NoThCall ==
  [mode |-> "", args |-> NoArgs, params |-> NoArgs,
   out |-> ThRaise("nocall", "")]

NoFitCall ==
  [data_points |-> <<>>, path_length |-> None,
   out |-> [exc |-> "nocall", msg |-> "", val |-> NoFit]]

NoCurveCall ==
  [epsilon |-> None, path_length |-> None, max_concentration |-> None,
   num_points |-> 0, out |-> CurveRaise("nocall"),
   again |-> CurveRaise("nocall")]

NoPlotCall ==
  [data_points |-> <<>>,
   out |-> [signal |-> "", msg |-> "", plot |-> NoPlot,
            transformed |-> FALSE]]

\* a caller that keeps a list of DataPoint and a list of (T, K) tuples and
\* calls the two regressions on them: the arguments (err is where the
\* rounding of np.polyfit falls, the same in every call), the number of calls
\* made, the kind of the last call with the value of the list it passed,
\* and the outcomes of the first and of the last call of each kind
NoSession ==
  [fit_list |-> <<>>, path_length |-> None, vh_list |-> <<>>,
   err |-> <<0, 0>>, calls |-> 0, last |-> "", passed |-> <<>>,
   fit_first |-> NoFitCall.out, fit_last |-> NoFitCall.out,
   vh_first |-> NoPlotCall.out, vh_last |-> NoPlotCall.out]

NoSweep ==
  [kind |-> "", delta_G |-> None, delta_H |-> None, delta_S |-> None,
   temp_range |-> <<>>, out |-> [signal |-> "", msg |-> "",
                                 plot |-> NoSweepPlot]]

\* a BeerLambertVM, the last method called on it with its arguments, the
\* object before that call and the signals the call emitted
NoVmCall ==
  [vm |-> NewBeerLambertVM, op |-> "", args |-> <<>>,
   before |-> NewBeerLambertVM, emitted |-> <<>>]

\* a tab, the last thing the user did in it (for a press of Remove, the
\* position of the row whose button was pressed) and the tab before that
NoTab == [t |-> NewTab, op |-> "", pressed |-> 0 - 1, before |-> NewTab]

\* a ThermodynamicsViewModel, the last thing done to it, the object before
\* that, the signals emitted, and the payload of the last
\* calculation_completed emitted so far (NoResult if none)
NoTvmCall ==
  [vm |-> NewThermodynamicsViewModel, op |-> "",
   before |-> NewThermodynamicsViewModel, emitted |-> <<>>,
   completed |-> NoResult]

(***************************************************************************)
(* main_window.py and core/tool_registry.py: the window's stacked widget,  *)
(* the tool registry, show_start_menu and load_tool.  A widget is a record *)
(* of the tool it shows and a serial number that tells two widgets of one  *)
(* tool apart; a widget handed to deleteLater is gone, its serial free.    *)
(***************************************************************************)
Widget(tool, serial) == [tool |-> tool, serial |-> serial]

\* main_window.py line 27
start_menu == Widget("start_menu", 0)

\* Python's None as a tool id, and an attribute never assigned
NoToolId == "None"
Unset == Widget("", 0)

\* QStackedWidget: the widgets in order and the index of the one displayed
\* (0 when there is none)
QStackedWidget(widgets, current) == [widgets |-> widgets, current |-> current]

IndexOf(widgets, w) ==
  IF \E i \in 1..Len(widgets) : widgets[i] = w
    THEN CHOOSE i \in 1..Len(widgets) : widgets[i] = w
    ELSE 0

currentWidget(stack) ==
  IF stack.current = 0 THEN Unset ELSE stack.widgets[stack.current]

addWidget(stack, w) ==
  QStackedWidget(Append(stack.widgets, w),
                 IF stack.current = 0 THEN 1 ELSE stack.current)

\* removing the displayed widget displays the one that takes its place, or
\* the one before it when it was the last
removeWidget(stack, w) ==
  The({IF i = 0 THEN stack
       ELSE QStackedWidget(ListPop(stack.widgets, i - 1),
              IF i = stack.current
                THEN (IF i = Len(stack.widgets) THEN i - 1 ELSE i)
                ELSE IF i < stack.current THEN stack.current - 1
                ELSE stack.current) :
       i \in {IndexOf(stack.widgets, w)}})

setCurrentWidget(stack, w) ==
  IF IndexOf(stack.widgets, w) = 0 THEN stack
  ELSE QStackedWidget(stack.widgets, IndexOf(stack.widgets, w))

\* main_window.py lines 37-66: the tools registered and their display names
tool_registry ==
  [tool_id \in {"beer_lambert", "thermodynamics", "standard_curve",
                "protein_calc", "dilution_calc"} |->
     CASE tool_id = "beer_lambert" -> "Beer-Lambert Calculator"
       [] tool_id = "thermodynamics" -> "Thermodynamics Tool"
       [] tool_id = "standard_curve" -> "Standard Curve"
       [] tool_id = "protein_calc" -> "Protein Calculator"
       [] tool_id = "dilution_calc" -> "Dilution Calculator"]

\* tool_registry.py lines 39-41
is_tool_available(tool_id) == tool_id \in DOMAIN tool_registry

\* tool_registry.py lines 29-33
get_tool_name(tool_id) ==
  IF tool_id \notin DOMAIN tool_registry THEN "Unknown Tool"
  ELSE tool_registry[tool_id]

\* tool_registry.py lines 21-27: a new widget of the tool, unless the tool
\* is not registered or its factory raises
create_tool(tool_id, stack, factory_raises) ==
  IF tool_id \notin DOMAIN tool_registry
    THEN [raised |-> TRUE, widget |-> Unset]
  ELSE IF factory_raises THEN [raised |-> TRUE, widget |-> Unset]
  ELSE [raised |-> FALSE,
        widget |-> Widget(tool_id,
                     CHOOSE n \in 1..(Len(stack.widgets) + 1) :
                       \A i \in 1..Len(stack.widgets) :
                         stack.widgets[i].serial # n)]

MainWindow(current_tool_id, stack, current_tool_widget, title) ==
  [current_tool_id |-> current_tool_id, stacked_widget |-> stack,
   current_tool_widget |-> current_tool_widget, windowTitle |-> title]

\* main_window.py lines 100-104
show_start_menu(w) ==
  MainWindow(NoToolId, setCurrentWidget(w.stacked_widget, start_menu),
             w.current_tool_widget, <<"Protein Science Toolkit">>)

\* main_window.py lines 11-35
NewMainWindow ==
  show_start_menu(MainWindow(NoToolId,
                             addWidget(QStackedWidget(<<>>, 0), start_menu),
                             Unset, <<"Protein Science Toolkit">>))

\* main_window.py lines 116-129: the new widget takes the place of the
\* previous one
ShowTool(w, tool_id, tool_widget) ==
  MainWindow(tool_id,
    setCurrentWidget(
      addWidget(IF w.current_tool_widget # Unset
                  THEN removeWidget(w.stacked_widget, w.current_tool_widget)
                  ELSE w.stacked_widget,
                tool_widget),
      tool_widget),
    tool_widget,
    <<"Protein Science Toolkit", get_tool_name(tool_id)>>)

\* a variant of load_tool that falls back to nothing when the factory
\* raises
load_tool_NoFallback(w, tool_id, factory_raises) ==
  IF ~is_tool_available(tool_id) THEN w
  ELSE The({IF made.raised THEN w
            ELSE ShowTool(w, tool_id, made.widget) :
            made \in {create_tool(tool_id, w.stacked_widget,
                                  factory_raises)}})

\* main_window.py lines 106-134
load_tool(w, tool_id, factory_raises) ==
  IF ~is_tool_available(tool_id) THEN w
  ELSE The({IF made.raised THEN show_start_menu(w)
            ELSE ShowTool(w, tool_id, made.widget) :
            made \in {create_tool(tool_id, w.stacked_widget,
                                  factory_raises)}})

\* a MainWindow, the last thing done to it with its arguments, and the
\* window before that
NoWindowCall ==
  [w |-> NewMainWindow, op |-> "", tool_id |-> NoToolId,
   factory_raises |-> FALSE, before |-> NewMainWindow]

Init ==
  /\ pc = "idle"
  /\ bl = NoCall
  /\ bl2 = NoCall
  /\ th = NoThCall
  /\ th2 = NoThCall
  /\ lr = NoFitCall
  /\ gc = NoCurveCall
  /\ vh = NoPlotCall
  /\ cs = NoSession
  /\ sw = NoSweep
  /\ blvm = NoVmCall
  /\ tab = NoTab
  /\ tvm = NoTvmCall
  /\ mw = NoWindowCall

\* one call calculate_beer_lambert(params, mode)
SolveBeerLambert ==
  /\ pc = "idle"
  /\ \E mode \in CalculationMode \cup {OtherMode} :
       \E eps \in BLValues, path \in BLValues, conc \in BLValues,
          absb \in BLValues :
         LET params == BeerLambertInput(eps, path, conc, absb)
         IN bl' = [mode |-> mode, params |-> params,
                   out |-> calculate_beer_lambert(params, mode)]
  /\ pc' = "solved"
  /\ UNCHANGED <<bl2, th, th2, lr, gc, vh, cs, sw, blvm, tab, tvm, mw>>

\* the field of BeerLambertInput that a mode computes
FieldOf(mode) ==
  IF mode = ABSORBANCE THEN "absorbance"
  ELSE IF mode = CONCENTRATION THEN "conc_M"
  ELSE IF mode = EPSILON THEN "epsilon_Minv_cm"
  ELSE "path_cm"

ModeOfField(f) == CHOOSE mode \in CalculationMode : FieldOf(mode) = f

BLFields == {"epsilon_Minv_cm", "path_cm", "conc_M", "absorbance"}

\* the quantities a mode requires: all but the one it computes
RequiredFields(mode) == BLFields \ {FieldOf(mode)}

\* a second call: the value returned by bl replaces the field it computes,
\* and one of the known inputs of bl (target) is solved for instead
InvertBeerLambert ==
  /\ pc = "solved"
  /\ bl.mode \in CalculationMode
  /\ Returned(bl.out)
  /\ \E target \in RequiredFields(bl.mode) :
       LET params == [[bl.params EXCEPT ![FieldOf(bl.mode)] = bl.out.val]
                        EXCEPT ![target] = None]
           mode == ModeOfField(target)
       IN bl2' = [mode |-> mode, params |-> params,
                  out |-> calculate_beer_lambert(params, mode)]
  /\ pc' = "inverted"
  /\ UNCHANGED <<bl, th, th2, lr, gc, vh, cs, sw, blvm, tab, tvm, mw>>

NextBL == SolveBeerLambert \/ InvertBeerLambert

SpecBL == Init /\ [][NextBL]_vars

\* the values tried for each keyword argument
DeltaGValues ==
  {None, NaN, Lit(0 - 20, 1), Lit(0 - 1, 2), Zero, Lit(1, 10), Lit(1, 2),
   Lit(5, 1), Huge}
DeltaHValues == {None, Lit(0 - 50, 1), Lit(3, 1), Lit(1, 10), Inf(1)}
DeltaSValues ==
  {None, NaN, Zero, Tiny, Lit(0 - 100, 1), Lit(100, 1), Lit(7, 1)}
KelvinValues ==
  {None, NaN, Zero, Lit(0 - 5, 1), Lit(5, 1), Lit(20, 1), Lit(300, 1)}
CelsiusValues == {None, Lit(0 - 300, 1), Lit(25, 1)}
KeqValues == {None, Zero, Lit(0 - 1, 1), Lit(2, 1)}

ThCall(mode, args) ==
  LET params == ThermodynamicsInput(args)
  IN [mode |-> mode, args |-> args, params |-> params,
      out |-> calculate_thermodynamics(params, mode)]

\* one call calculate_thermodynamics(ThermodynamicsInput(**args), mode)
SolveThermodynamics ==
  /\ pc = "idle"
  /\ \E mode \in ThermodynamicsMode \cup {OtherMode} :
       \E dG \in DeltaGValues, dH \in DeltaHValues, dS \in DeltaSValues,
          tK \in KelvinValues, tC \in CelsiusValues, keq \in KeqValues :
         th' = ThCall(mode, ThermodynamicsArgs(dG, dH, dS, tK, tC, keq))
  /\ pc' = "th_solved"
  /\ UNCHANGED <<bl, bl2, th2, lr, gc, vh, cs, sw, blvm, tab, tvm, mw>>

\* a second call: the dG returned in GibbsFreeEnergy mode is fed, with dS
\* and T, to Enthalpy mode, or, with dH and T, to Entropy mode
InvertThermodynamics ==
  /\ pc = "th_solved"
  /\ th.mode = GIBBS_FREE_ENERGY
  /\ Returned(th.out)
  /\ \E mode \in {ENTHALPY, ENTROPY} :
       LET dG == th.out.val.calculated_value
           tK == th.params.temperature_K
       IN th2' = IF mode = ENTHALPY
                   THEN ThCall(mode, ThermodynamicsArgs(dG, None,
                          th.params.delta_S_J_mol_K, tK, None, None))
                   ELSE ThCall(mode, ThermodynamicsArgs(dG,
                          th.params.delta_H_kJ_mol, None, tK, None, None))
  /\ pc' = "th_inverted"
  /\ UNCHANGED <<bl, bl2, th, lr, gc, vh, cs, sw, blvm, tab, tvm, mw>>

\* a second call: the K returned in EquilibriumConstant mode is fed, with T,
\* to GibbsFromK mode
InvertEquilibrium ==
  /\ pc = "th_solved"
  /\ th.mode = EQUILIBRIUM_CONSTANT
  /\ Returned(th.out)
  /\ th2' = ThCall(GIBBS_FROM_KEQR,
                   ThermodynamicsArgs(None, None, None,
                     th.params.temperature_K, None,
                     th.out.val.calculated_value))
  /\ pc' = "keq_inverted"
  /\ UNCHANGED <<bl, bl2, th, lr, gc, vh, cs, sw, blvm, tab, tvm, mw>>

NextTH == SolveThermodynamics \/ InvertThermodynamics \/ InvertEquilibrium

SpecTH == Init /\ [][NextTH]_vars

\* the longest dataset tried
MaxPoints == 3

\* the points a dataset is drawn from: on the lines y = 2x, y = 2x + 1 and
\* y = 2, a denormal concentration, and a negative absorbance
FitPoints ==
  {DataPoint(Zero, Zero), DataPoint(Lit(1, 1), Lit(2, 1)),
   DataPoint(Lit(2, 1), Lit(4, 1)), DataPoint(Zero, Lit(1, 1)),
   DataPoint(Lit(2, 1), Lit(5, 1)), DataPoint(Lit(2, 1), Lit(2, 1)),
   DataPoint(Tiny, Zero), DataPoint(Lit(1, 1), Lit(0 - 1, 1))}

DataSets == UNION {[1..n -> FitPoints] : n \in 0..MaxPoints}

\* the points of the datasets that are fitted with a path length
CurvePoints ==
  {DataPoint(Zero, Zero), DataPoint(Lit(1, 1), Lit(2, 1)),
   DataPoint(Lit(2, 1), Lit(4, 1)), DataPoint(Lit(2, 1), Lit(5, 1))}

CurveDataSets == UNION {[1..n -> CurvePoints] : n \in 0..MaxPoints}

PathLengthValues == {None, NaN, Zero, Lit(0 - 1, 1), Lit(2, 1)}

\* the calls tried: every dataset without a path length, and the datasets
\* of CurvePoints with every path length
FitCalls == (DataSets \X {None}) \cup (CurveDataSets \X PathLengthValues)

\* one call linear_regression(data_points, path_length)
FitStandardCurve ==
  /\ pc = "idle"
  /\ \E call \in FitCalls :
       lr' = [data_points |-> call[1], path_length |-> call[2],
              out |-> linear_regression(call[1], call[2])]
  /\ pc' = "fitted"
  /\ UNCHANGED <<bl, bl2, th, th2, gc, vh, cs, sw, blvm, tab, tvm, mw>>

NextLR == FitStandardCurve

SpecLR == Init /\ [][NextLR]_vars

\* the largest num_points tried, apart from the default
MaxNumPoints == 5
\* num_points when the caller gives none
DefaultNumPoints == 20

CurveEpsilons == {Zero, Lit(3, 1), Lit(7, 10), NaN}
CurvePaths == {Lit(1, 1), Lit(53, 10), Lit(0 - 1, 1)}
CurveMaxima == {Zero, Tiny, Lit(1, 1), Lit(9, 10), Lit(3, 1), Lit(0 - 1, 1)}
CurveCounts == ((0 - 1)..MaxNumPoints) \cup {DefaultNumPoints}

\* one call generate_standard_curve_points(epsilon, path_length,
\* max_concentration, num_points)
GenerateCurve ==
  /\ pc = "idle"
  /\ \E epsilon \in CurveEpsilons, path_length \in CurvePaths,
        max_concentration \in CurveMaxima, num_points \in CurveCounts :
       gc' = [epsilon |-> epsilon, path_length |-> path_length,
              max_concentration |-> max_concentration,
              num_points |-> num_points,
              out |-> generate_standard_curve_points(
                        epsilon, path_length, max_concentration, num_points),
              again |-> CurveRaise("nocall")]
  /\ pc' = "curve"
  /\ UNCHANGED <<bl, bl2, th, th2, lr, vh, cs, sw, blvm, tab, tvm, mw>>

\* a second call with the arguments of the first
GenerateCurveAgain ==
  /\ pc = "curve"
  /\ gc' = [gc EXCEPT !.again =
              generate_standard_curve_points(
                gc.epsilon, gc.path_length, gc.max_concentration,
                gc.num_points)]
  /\ pc' = "curve_again"
  /\ UNCHANGED <<bl, bl2, th, th2, lr, vh, cs, sw, blvm, tab, tvm, mw>>

NextGC == GenerateCurve \/ GenerateCurveAgain

SpecGC == Init /\ [][NextGC]_vars

\* the (T, K) tuples a van't Hoff dataset is drawn from: three
\* measurements, two of them at the same temperature, a temperature of 0
\* and a negative K (temperatures of a few kelvin keep (1/T - mean)^2
\* inside the format)
VanHoffPoints ==
  {<<Lit(1, 1), Lit(2, 1)>>, <<Lit(3, 1), Lit(4, 1)>>,
   <<Lit(3, 1), Lit(8, 1)>>, <<Zero, Lit(2, 1)>>,
   <<Lit(1, 1), Lit(0 - 1, 1)>>}

\* two measurements with K < 1, where ln K is negative
VanHoffFractions ==
  {<<Lit(1, 1), Lit(1, 2)>>, <<Lit(3, 1), Lit(1, 4)>>}

VanHoffDataSets ==
  UNION {[1..n -> VanHoffPoints] : n \in 0..MaxPoints}
    \cup [1..2 -> VanHoffFractions]

\* one call generate_van_hoff_plot(data_points)
GenerateVanHoffPlot ==
  /\ pc = "idle"
  /\ \E data_points \in VanHoffDataSets, err \in PolyfitErrors :
       vh' = [data_points |-> data_points,
              out |-> generate_van_hoff_plot(data_points, err)]
  /\ pc' = "van_hoff"
  /\ UNCHANGED <<bl, bl2, th, th2, lr, gc, cs, sw, blvm, tab, tvm, mw>>

NextVH == GenerateVanHoffPlot

SpecVH == Init /\ [][NextVH]_vars

\* the number of regression calls of one caller
MaxCalls == 4

SessionPoints ==
  {DataPoint(Zero, Zero), DataPoint(Lit(1, 1), Lit(2, 1)),
   DataPoint(Lit(2, 1), Lit(5, 1))}
SessionFitLists ==
  [1..2 -> SessionPoints]
    \cup {<<>>,
          <<DataPoint(Lit(1, 1), Lit(0 - 1, 1)), DataPoint(Zero, Zero)>>,
          <<DataPoint(Lit(2, 1), Lit(5, 1)), DataPoint(Zero, Zero),
            DataPoint(Lit(1, 1), Lit(2, 1))>>}
SessionVanHoffLists ==
  [1..2 -> VanHoffFractions]
    \cup {<<>>,
          <<<<Zero, Lit(2, 1)>>, <<Lit(1, 1), Lit(2, 1)>>>>,
          <<<<Lit(3, 1), Lit(4, 1)>>, <<Lit(1, 1), Lit(2, 1)>>,
            <<Lit(3, 1), Lit(8, 1)>>>>}

\* the caller fills its two lists
SessionStart ==
  /\ pc = "idle"
  /\ \E fit_list \in SessionFitLists, vh_list \in SessionVanHoffLists,
        path_length \in {None, Lit(2, 1)} :
       cs' = [NoSession EXCEPT !.fit_list = fit_list, !.vh_list = vh_list,
                               !.path_length = path_length]
  /\ pc' = "session"
  /\ UNCHANGED <<bl, bl2, th, th2, lr, gc, vh, sw, blvm, tab, tvm, mw>>

\* linear_regression(fit_list, path_length) on the caller's list
SessionFit ==
  /\ pc = "session" /\ cs.calls < MaxCalls
  /\ \E out \in {linear_regression(cs.fit_list, cs.path_length)} :
       cs' = [cs EXCEPT !.fit_list = FitLeaves(cs.fit_list),
                        !.calls = @ + 1, !.last = "fit",
                        !.passed = cs.fit_list,
                        !.fit_first = IF @.exc = "nocall" THEN out ELSE @,
                        !.fit_last = out]
  /\ UNCHANGED <<pc, bl, bl2, th, th2, lr, gc, vh, sw, blvm, tab, tvm, mw>>

\* generate_van_hoff_plot(vh_list) on the caller's list
SessionVanHoff ==
  /\ pc = "session" /\ cs.calls < MaxCalls
  /\ \E out \in {generate_van_hoff_plot(cs.vh_list, cs.err)} :
       cs' = [cs EXCEPT !.vh_list = VanHoffLeaves(cs.vh_list),
                        !.calls = @ + 1, !.last = "vh",
                        !.passed = cs.vh_list,
                        !.vh_first = IF @.signal = "" THEN out ELSE @,
                        !.vh_last = out]
  /\ UNCHANGED <<pc, bl, bl2, th, th2, lr, gc, vh, sw, blvm, tab, tvm, mw>>

NextCS == SessionStart \/ SessionFit \/ SessionVanHoff

SpecCS == Init /\ [][NextCS]_vars

\* the arguments of the sweeps: ranges of a few kelvin, some of them
\* starting at, ending at or crossing T = 0, and two tuples of the wrong
\* length
SweepBounds == {Lit(0 - 1, 1), Zero, Lit(1, 1), Lit(2, 1), Lit(3, 1)}
SweepRanges ==
  (SweepBounds \X SweepBounds) \cup {<<Lit(1, 1)>>,
                                     <<Lit(1, 1), Lit(2, 1), Lit(3, 1)>>}
SweepDeltaG == {Lit(0 - 1, 16), Zero, Lit(1, 2), Lit(1, 1), NaN}
SweepDeltaH == {Lit(0 - 1, 1), Zero, Lit(2, 1)}
SweepDeltaS == {Lit(0 - 250, 1), Zero, Lit(500, 1), NaN}

\* one call generate_temperature_plot(delta_H, delta_S, temp_range)
GenerateTemperaturePlot ==
  /\ pc = "idle"
  /\ \E delta_H \in SweepDeltaH, delta_S \in SweepDeltaS,
        temp_range \in SweepRanges :
       sw' = [NoSweep EXCEPT
                !.kind = "temperature", !.delta_H = delta_H,
                !.delta_S = delta_S, !.temp_range = temp_range,
                !.out = generate_temperature_plot(delta_H, delta_S,
                                                  temp_range)]
  /\ pc' = "sweep"
  /\ UNCHANGED <<bl, bl2, th, th2, lr, gc, vh, cs, blvm, tab, tvm, mw>>

\* one call generate_equilibrium_plot(delta_G, temp_range)
GenerateEquilibriumPlot ==
  /\ pc = "idle"
  /\ \E delta_G \in SweepDeltaG, temp_range \in SweepRanges :
       sw' = [NoSweep EXCEPT
                !.kind = "equilibrium", !.delta_G = delta_G,
                !.temp_range = temp_range,
                !.out = generate_equilibrium_plot(delta_G, temp_range)]
  /\ pc' = "sweep"
  /\ UNCHANGED <<bl, bl2, th, th2, lr, gc, vh, cs, blvm, tab, tvm, mw>>

NextSW == GenerateTemperaturePlot \/ GenerateEquilibriumPlot

SpecSW == Init /\ [][NextSW]_vars

\* the longest list of data points kept
MaxStore == 3

\* the arguments tried: three good points, one with an absorbance that is
\* not a number, two with a negative coordinate; the path lengths a caller
\* may assign; the indices a caller may ask to remove
VmAddArgs ==
  {<<Zero, Zero>>, <<Lit(1, 1), Lit(2, 1)>>, <<Lit(2, 1), Lit(5, 1)>>,
   <<Lit(1, 1), NaN>>, <<Lit(1, 1), Lit(0 - 1, 1)>>,
   <<Lit(0 - 1, 1), Zero>>}
VmPathArgs == {None, Zero, Lit(0 - 1, 1), NaN, Lit(2, 1)}
VmIndexArgs == (0 - 1)..MaxStore

VmCall(op, args, done) ==
  [vm |-> done.vm, op |-> op, args |-> args, before |-> blvm.vm,
   emitted |-> done.emitted]

VmAddDataPoint ==
  /\ pc \in {"idle", "vm"}
  /\ Len(blvm.vm.data_points) < MaxStore
  /\ \E args \in VmAddArgs :
       blvm' = VmCall("add_data_point", args,
                      add_data_point(blvm.vm, args[1], args[2]))
  /\ pc' = "vm"
  /\ UNCHANGED <<bl, bl2, th, th2, lr, gc, vh, cs, sw, tab, tvm, mw>>

VmRemoveDataPoint ==
  /\ pc \in {"idle", "vm"}
  /\ \E index \in VmIndexArgs :
       blvm' = VmCall("remove_data_point", <<index>>,
                      remove_data_point(blvm.vm, index))
  /\ pc' = "vm"
  /\ UNCHANGED <<bl, bl2, th, th2, lr, gc, vh, cs, sw, tab, tvm, mw>>

VmClearDataPoints ==
  /\ pc \in {"idle", "vm"}
  /\ blvm' = VmCall("clear_data_points", <<>>, clear_data_points(blvm.vm))
  /\ pc' = "vm"
  /\ UNCHANGED <<bl, bl2, th, th2, lr, gc, vh, cs, sw, tab, tvm, mw>>

VmSetPathLength ==
  /\ pc \in {"idle", "vm"}
  /\ \E value \in VmPathArgs :
       blvm' = VmCall("path_length", <<value>>,
                      set_path_length(blvm.vm, value))
  /\ pc' = "vm"
  /\ UNCHANGED <<bl, bl2, th, th2, lr, gc, vh, cs, sw, tab, tvm, mw>>

VmPerformLinearRegression ==
  /\ pc \in {"idle", "vm"}
  /\ blvm' = VmCall("perform_linear_regression", <<>>,
                    perform_linear_regression(blvm.vm))
  /\ pc' = "vm"
  /\ UNCHANGED <<bl, bl2, th, th2, lr, gc, vh, cs, sw, tab, tvm, mw>>

NextVM ==
  \/ VmAddDataPoint \/ VmRemoveDataPoint \/ VmClearDataPoints
  \/ VmSetPathLength \/ VmPerformLinearRegression

SpecVM == Init /\ [][NextVM]_vars

\* the quantities given to calculate_parameter and to compute
VmQuantities == {Lit(3, 1), Lit(7, 10), Lit(53, 10), Zero}

VmSetCalculationMode ==
  /\ pc \in {"idle", "vm"}
  /\ \E mode \in CalculationMode :
       blvm' = VmCall("calculation_mode", <<mode>>,
                      set_calculation_mode(blvm.vm, mode))
  /\ pc' = "vm"
  /\ UNCHANGED <<bl, bl2, th, th2, lr, gc, vh, cs, sw, tab, tvm, mw>>

VmCalculateParameter ==
  /\ pc \in {"idle", "vm"}
  /\ \E epsilon, path_length, concentration, absorbance
          \in {None, Lit(3, 1)} :
       LET kwargs == VmKwargs(epsilon, path_length, concentration,
                              absorbance)
       IN blvm' = VmCall("calculate_parameter", <<kwargs>>,
                         vm_calculate_parameter(blvm.vm, kwargs))
  /\ pc' = "vm"
  /\ UNCHANGED <<bl, bl2, th, th2, lr, gc, vh, cs, sw, tab, tvm, mw>>

VmCompute ==
  /\ pc \in {"idle", "vm"}
  /\ \E epsilon, path, conc \in VmQuantities :
       blvm' = VmCall("compute", <<epsilon, path, conc>>,
                      compute(blvm.vm, epsilon, path, conc))
  /\ pc' = "vm"
  /\ UNCHANGED <<bl, bl2, th, th2, lr, gc, vh, cs, sw, tab, tvm, mw>>

NextVP == VmSetCalculationMode \/ VmCalculateParameter \/ VmCompute

SpecVP == Init /\ [][NextVP]_vars

\* the most rows a table gets
MaxRows == 3

\* what the spin boxes of the two tabs can hold: a concentration in
\* 0..1 with an absorbance in 0..5, a temperature in 200..500 with a K
CurveEntries ==
  {<<Zero, Zero>>, <<Lit(1, 2), Lit(1, 1)>>, <<Lit(1, 1), Lit(2, 1)>>}
VanHoffEntries ==
  {<<Lit(300, 1), Lit(2, 1)>>, <<Lit(400, 1), Lit(4, 1)>>,
   <<Lit(500, 1), Lit(1, 2)>>}

TabDid(op, pressed, t) ==
  [t |-> t, op |-> op, pressed |-> pressed, before |-> tab.t]

\* Add Point in the curve tab
CurveAddPoint ==
  /\ pc \in {"idle", "curve_tab"}
  /\ Len(tab.t.rows) < MaxRows
  /\ \E entry \in CurveEntries :
       tab' = TabDid("add", 0 - 1,
                     curve_add_data_point(tab.t, entry[1], entry[2]))
  /\ pc' = "curve_tab"
  /\ UNCHANGED <<bl, bl2, th, th2, lr, gc, vh, cs, sw, blvm, tvm, mw>>

\* Remove in a row of the curve tab: the button passes its own number
CurvePressRemove ==
  /\ pc = "curve_tab"
  /\ \E shown \in 1..Len(tab.t.rows) :
       tab' = TabDid("remove", shown - 1,
                     curve_remove_data_point(tab.t,
                                             tab.t.rows[shown].button))
  /\ UNCHANGED <<pc, bl, bl2, th, th2, lr, gc, vh, cs, sw, blvm, tvm, mw>>

\* Clear All in the curve tab
CurveClearAll ==
  /\ pc = "curve_tab"
  /\ tab' = TabDid("clear", 0 - 1, curve_clear_all_data(tab.t))
  /\ UNCHANGED <<pc, bl, bl2, th, th2, lr, gc, vh, cs, sw, blvm, tvm, mw>>

\* the same three in the van't Hoff tab
VanHoffAddPoint ==
  /\ pc \in {"idle", "van_hoff_tab"}
  /\ Len(tab.t.rows) < MaxRows
  /\ \E entry \in VanHoffEntries :
       tab' = TabDid("add", 0 - 1,
                     van_hoff_add_data_point(tab.t, entry[1], entry[2]))
  /\ pc' = "van_hoff_tab"
  /\ UNCHANGED <<bl, bl2, th, th2, lr, gc, vh, cs, sw, blvm, tvm, mw>>

VanHoffPressRemove ==
  /\ pc = "van_hoff_tab"
  /\ \E shown \in 1..Len(tab.t.rows) :
       tab' = TabDid("remove", shown - 1,
                     van_hoff_remove_data_point(tab.t,
                                                tab.t.rows[shown].button))
  /\ UNCHANGED <<pc, bl, bl2, th, th2, lr, gc, vh, cs, sw, blvm, tvm, mw>>

VanHoffClearAll ==
  /\ pc = "van_hoff_tab"
  /\ tab' = TabDid("clear", 0 - 1, van_hoff_clear_all_data(tab.t))
  /\ UNCHANGED <<pc, bl, bl2, th, th2, lr, gc, vh, cs, sw, blvm, tvm, mw>>

NextTab ==
  \/ CurveAddPoint \/ CurvePressRemove \/ CurveClearAll
  \/ VanHoffAddPoint \/ VanHoffPressRemove \/ VanHoffClearAll

SpecTab == Init /\ [][NextTab]_vars

\* the keyword arguments given to calculate_parameter
TvmKwargs ==
  {ThermodynamicsArgs(dG, dH, dS, tK, None, keq) :
     dG \in {None, Lit(5, 1)}, dH \in {None, Lit(3, 1)},
     dS \in {None, Zero, Lit(7, 1)}, tK \in {None, Zero, Lit(20, 1)},
     keq \in {None, Lit(2, 1)}}

\* ui/modules/thermodynamics_view.py line 325: the view assigns one of the
\* modes of its combo box to vm.calculation_mode
TvmSetCalculationMode ==
  /\ pc \in {"idle", "tvm"}
  /\ \E mode \in ThermodynamicsMode :
       tvm' = [tvm EXCEPT !.vm.calculation_mode = mode,
                          !.op = "calculation_mode",
                          !.before = tvm.vm, !.emitted = <<>>]
  /\ pc' = "tvm"
  /\ UNCHANGED <<bl, bl2, th, th2, lr, gc, vh, cs, sw, blvm, tab, mw>>

\* one call calculate_parameter(**kwargs)
TvmCalculateParameter ==
  /\ pc \in {"idle", "tvm"}
  /\ \E kwargs \in TvmKwargs :
       \E done \in {th_calculate_parameter(tvm.vm, kwargs)} :
         tvm' = [vm |-> done.vm, op |-> "calculate_parameter",
                 before |-> tvm.vm, emitted |-> done.emitted,
                 completed |->
                   IF done.emitted[1].signal = "calculation_completed"
                     THEN done.emitted[1].payload
                     ELSE tvm.completed]
  /\ pc' = "tvm"
  /\ UNCHANGED <<bl, bl2, th, th2, lr, gc, vh, cs, sw, blvm, tab, mw>>

NextTVM == TvmSetCalculationMode \/ TvmCalculateParameter

SpecTVM == Init /\ [][NextTVM]_vars

\* the tool ids asked for: the registered ones and one that is not
ToolIds == DOMAIN tool_registry \cup {"unknown_tool"}

\* File > Home
ShowStartMenu ==
  /\ pc \in {"idle", "window"}
  /\ mw' = [w |-> show_start_menu(mw.w), op |-> "show_start_menu",
            tool_id |-> NoToolId, factory_raises |-> FALSE,
            before |-> mw.w]
  /\ pc' = "window"
  /\ UNCHANGED <<bl, bl2, th, th2, lr, gc, vh, cs, sw, blvm, tab, tvm>>

\* a tool chosen in the start menu or the Tools menu, or load_tool called
\* with any id; whether the factory raises is the environment's choice
LoadTool ==
  /\ pc \in {"idle", "window"}
  /\ \E tool_id \in ToolIds, factory_raises \in BOOLEAN :
       mw' = [w |-> load_tool(mw.w, tool_id, factory_raises),
              op |-> "load_tool", tool_id |-> tool_id,
              factory_raises |-> factory_raises, before |-> mw.w]
  /\ pc' = "window"
  /\ UNCHANGED <<bl, bl2, th, th2, lr, gc, vh, cs, sw, blvm, tab, tvm>>

NextMW == ShowStartMenu \/ LoadTool

SpecMW == Init /\ [][NextMW]_vars

Next ==
  \/ NextBL \/ NextTH \/ NextLR \/ NextGC \/ NextVH \/ NextCS \/ NextSW
  \/ NextVM \/ NextVP \/ NextTab \/ NextTVM
  \/ NextMW

Spec == Init /\ [][Next]_vars

(***************************************************************************)
(* Vocabulary of the properties.                                           *)
(***************************************************************************)
\* the calls of calculate_beer_lambert made so far
BLCalls == {c \in {bl, bl2} : c.out.exc # "nocall"}

\* the error kinds of the specification, told apart by message
MissingParameter(out) ==
  /\ out.exc = "ValueError"
  /\ out.msg \in {MsgAbsorbanceRequired, MsgConcentrationRequired,
                  MsgEpsilonRequired, MsgPathLengthRequired}

InvalidParameter(out) ==
  /\ out.exc = "ValueError"
  /\ out.msg \in {MsgAllPositive, MsgEpsilonPathPositive,
                  MsgPathConcPositive, MsgEpsilonConcPositive,
                  MsgAbsorbanceNegative}

SomeRequiredAbsent(c) ==
  \E f \in RequiredFields(c.mode) : IsNone(c.params[f])

\* a required epsilon, path length or concentration is <= 0, or a required
\* absorbance is < 0
OutOfDomain(c) ==
  \E f \in RequiredFields(c.mode) :
    IF f = "absorbance" THEN FLt0(c.params[f]) ELSE FLe0(c.params[f])

\* C1: in each of the four modes a call with a required quantity absent
\* fails with the missing-parameter error, also when a required quantity
\* that is present is out of its domain.
C1_PresenceBeforeDomain ==
  \A c \in BLCalls :
    (c.mode \in CalculationMode /\ SomeRequiredAbsent(c))
      => MissingParameter(c.out)

\* C1 witness: Absorbance mode, c absent and epsilon negative, reported as
\* a missing parameter.
C1_Witness ==
  /\ pc = "solved"
  /\ bl.mode = ABSORBANCE
  /\ IsNone(bl.params.conc_M)
  /\ FLt0(bl.params.epsilon_Minv_cm)
  /\ ~IsNone(bl.params.path_cm)
  /\ bl.out = Raise("ValueError", MsgAbsorbanceRequired)

\* C2 (as claimed): with every required quantity present the call fails
\* with the invalid-parameter error exactly when a required quantity is out
\* of its domain, and otherwise returns a value.
C2_InvalidIffOutOfDomainElseReturns ==
  \A c \in BLCalls :
    (c.mode \in CalculationMode /\ ~SomeRequiredAbsent(c))
      => /\ InvalidParameter(c.out) <=> OutOfDomain(c)
         /\ ~OutOfDomain(c) => Returned(c.out)

\* the part of C2 that the code does keep
C2_InvalidIffOutOfDomain ==
  \A c \in BLCalls :
    (c.mode \in CalculationMode /\ ~SomeRequiredAbsent(c))
      => (InvalidParameter(c.out) <=> OutOfDomain(c))

\* the outcome of the one product or division that a mode stands for
DirectFormula(c) ==
  LET eps == c.params.epsilon_Minv_cm
      path == c.params.path_cm
      conc == c.params.conc_M
      absb == c.params.absorbance
  IN IF c.mode = ABSORBANCE THEN Return(FMul(FMul(eps, path), conc))
     ELSE IF c.mode = CONCENTRATION THEN PyDiv(absb, FMul(eps, path))
     ELSE IF c.mode = EPSILON THEN PyDiv(absb, FMul(path, conc))
     ELSE PyDiv(absb, FMul(eps, conc))

\* C3: for validated inputs the outcome is that of the one direct product
\* A = epsilon*l*c or division A/(epsilon*l), A/(l*c), A/(epsilon*c) of the
\* mode, a value is never returned that is not that product or quotient,
\* and a mode tag outside the four is rejected with an error.
C3_DirectFormulas ==
  \A c \in BLCalls :
    /\ (c.mode \in CalculationMode /\ ~SomeRequiredAbsent(c)
          /\ ~OutOfDomain(c))
         => c.out = DirectFormula(c)
    /\ (c.mode \in CalculationMode /\ Returned(c.out))
         => c.out = DirectFormula(c)
    /\ c.mode \notin CalculationMode
         => c.out = Raise("ValueError", MsgUnknownMode)

\* C3 witness: PathLength mode returns 3 / (0.7 * 5.3), rounded.
C3_Witness ==
  /\ pc = "solved"
  /\ bl.mode = PATH_LENGTH
  /\ bl.params.absorbance = Lit(3, 1)
  /\ bl.params.epsilon_Minv_cm = Lit(7, 10)
  /\ bl.params.conc_M = Lit(53, 10)
  /\ Returned(bl.out)
  /\ bl.out.val = FDiv(Lit(3, 1), FMul(Lit(7, 10), Lit(53, 10)))
  /\ bl.out.val # Lit(3, 1)

\* a finite float of full precision: at least the smallest normal number
Normal(x) ==
  IsFin(x) /\ x.m # 0 /\ x.e + BitLen(Abs(x.m)) - 1 >= Qmin + Prec - 1

\* the binary exponent of the unit in the last place of a finite x
UlpExp(x) == Max(x.e + BitLen(Abs(x.m)) - Prec, Qmin)

\* a finite float as an integer count of the smallest positive float
Units(x) == x.m * Pow2(x.e - Qmin)

\* the unit in the last place of a finite x, in the same count
UlpUnits(x) == Pow2(UlpExp(x) - Qmin)

\* |x - y| <= n units in the last place of y, for finite x and y, computed
\* exactly on the integers
WithinUlps(x, y, n) ==
  /\ IsFin(x) /\ IsFin(y)
  /\ Abs(Units(x) - Units(y)) <= n * UlpUnits(y)

\* the product a call forms first (for the three divisions, the divisor)
InnerProduct(c) ==
  LET eps == c.params.epsilon_Minv_cm
      path == c.params.path_cm
      conc == c.params.conc_M
  IN IF c.mode \in {ABSORBANCE, CONCENTRATION} THEN FMul(eps, path)
     ELSE IF c.mode = EPSILON THEN FMul(path, conc)
     ELSE FMul(eps, conc)

\* the known input of the first call that the second call solves for
Original == bl.params[FieldOf(bl2.mode)]

\* C4 (as claimed): whenever a mode accepts its inputs, feeding the value
\* it returns back with the same known inputs and solving for one of them
\* succeeds and returns that input.
C4_RoundTripReproduces ==
  pc = "inverted"
    => Returned(bl2.out) /\ FEq(bl2.out.val, Original)

\* the first call computed a positive value and no product or value it or
\* the second call forms leaves the normal range
InNormalRange ==
  /\ Normal(InnerProduct(bl))
  /\ Normal(bl.out.val) /\ FGt0(bl.out.val)
  /\ Normal(InnerProduct(bl2))

\* C4 (amended): when the computed value is positive and the products and
\* the value stay in the normal range, the second call returns the input to
\* within 4 units in the last place (or +inf, when the input is within 4
\* units of the largest float and the result overflows).
C4_RoundTripWithinRounding ==
  (pc = "inverted" /\ InNormalRange)
    => /\ Returned(bl2.out)
       /\ IF IsFin(bl2.out.val) THEN WithinUlps(bl2.out.val, Original, 4)
          ELSE bl2.out.val = Inf(1) /\ WithinUlps(Huge, Original, 4)

\* C4 witness: a round trip in the normal range that returns a neighbour
\* of the input, not the input.
C4_Witness ==
  /\ pc = "inverted"
  /\ InNormalRange
  /\ bl.mode = ABSORBANCE /\ bl2.mode = CONCENTRATION
  /\ Returned(bl2.out)
  /\ IsFin(bl2.out.val)
  /\ bl2.out.val # Original

(***************************************************************************)
(* Vocabulary of the thermodynamics properties.                            *)
(***************************************************************************)
\* the calls of calculate_thermodynamics made so far
ThCalls == {c \in {th, th2} : c.out.exc # "nocall"}

\* the quantities a mode requires, T being the Kelvin temperature of the
\* input record, supplied or derived
ThRequired(mode) ==
  IF mode = GIBBS_FREE_ENERGY
    THEN {"delta_H_kJ_mol", "delta_S_J_mol_K", "temperature_K"}
  ELSE IF mode = ENTHALPY
    THEN {"delta_G_kJ_mol", "delta_S_J_mol_K", "temperature_K"}
  ELSE IF mode = ENTROPY
    THEN {"delta_G_kJ_mol", "delta_H_kJ_mol", "temperature_K"}
  ELSE IF mode = TEMPERATURE
    THEN {"delta_G_kJ_mol", "delta_H_kJ_mol", "delta_S_J_mol_K"}
  ELSE IF mode = EQUILIBRIUM_CONSTANT
    THEN {"delta_G_kJ_mol", "temperature_K"}
  ELSE {"equilibrium_constant", "temperature_K"}

ThSomeRequiredAbsent(c) == \E f \in ThRequired(c.mode) : IsNone(c.params[f])

ThMissingParameter(out) ==
  /\ out.exc = "ValueError"
  /\ out.msg \in {MsgGibbsRequires, MsgEnthalpyRequires, MsgEntropyRequires,
                  MsgTemperatureRequires, MsgKRequires, MsgGibbsFromKRequires}

ThInvalidParameter(out) ==
  /\ out.exc = "ValueError"
  /\ out.msg \in {MsgTemperaturePositive, MsgKPositive}

\* the Kelvin temperature is present and <= 0, or K is present and <= 0
NonPositiveTOrK(c) ==
  \/ FLe0(c.params.temperature_K)
  \/ FLe0(c.params.equilibrium_constant)

\* C5: in each of the six modes a call with a required quantity absent
\* fails with the missing-parameter error, also when the temperature or the
\* equilibrium constant that is present is <= 0.
C5_MissingBeforePositive ==
  \A c \in ThCalls :
    (c.mode \in ThermodynamicsMode /\ ThSomeRequiredAbsent(c))
      => ThMissingParameter(c.out)

\* C5 witness: GibbsFreeEnergy mode without dH, with T = -5 K and K = -1,
\* reported as a missing parameter.
C5_Witness ==
  /\ pc = "th_solved"
  /\ th.mode = GIBBS_FREE_ENERGY
  /\ IsNone(th.params.delta_H_kJ_mol)
  /\ FLt0(th.params.temperature_K)
  /\ FLt0(th.params.equilibrium_constant)
  /\ th.out = ThRaise("ValueError", MsgGibbsRequires)

\* C6 (as claimed): in each of the six modes a call whose Kelvin temperature
\* is present and <= 0, or whose equilibrium constant is present and <= 0,
\* fails with the invalid-parameter error.
C6_NonPositiveRejected ==
  \A c \in ThCalls :
    (c.mode \in ThermodynamicsMode /\ NonPositiveTOrK(c))
      => ThInvalidParameter(c.out)

\* C6 (amended): it does so provided every quantity the mode requires is
\* present, whether or not the mode requires T or K.
C6_NonPositiveRejectedWhenComplete ==
  \A c \in ThCalls :
    (c.mode \in ThermodynamicsMode /\ ~ThSomeRequiredAbsent(c)
       /\ NonPositiveTOrK(c))
      => ThInvalidParameter(c.out)

\* C6 witness: GibbsFreeEnergy mode, complete and with T > 0, rejected for
\* a K <= 0 that the mode does not use.
C6_Witness ==
  /\ pc = "th_solved"
  /\ th.mode = GIBBS_FREE_ENERGY
  /\ ~ThSomeRequiredAbsent(th)
  /\ FGt0(th.params.temperature_K)
  /\ FLe0(th.params.equilibrium_constant)
  /\ th.out = ThRaise("ValueError", MsgKPositive)

\* the inputs passed the presence check and the checks of T and K
Validated(c) == ~ThSomeRequiredAbsent(c) /\ ~NonPositiveTOrK(c)

\* the value of the Gibbs-Helmholtz relation solved for the mode's unknown,
\* each operation rounded, dS divided by 1000 (or the quotient in kJ
\* multiplied by 1000) once
GibbsHelmholtz(c) ==
  LET dG == c.params.delta_G_kJ_mol
      dH == c.params.delta_H_kJ_mol
      dS == c.params.delta_S_J_mol_K
      T == c.params.temperature_K
  IN IF c.mode = GIBBS_FREE_ENERGY
       THEN FSub(dH, FMul(T, FDiv(dS, Thousand)))
     ELSE IF c.mode = ENTHALPY
       THEN FAdd(dG, FMul(T, FDiv(dS, Thousand)))
     ELSE IF c.mode = ENTROPY
       THEN FMul(Thousand, FDiv(FSub(dH, dG), T))
     ELSE FDiv(FSub(dH, dG), FDiv(dS, Thousand))

\* C7: for validated inputs GibbsFreeEnergy, Enthalpy and Entropy mode
\* return dH - T*(dS/1000), dG + T*(dS/1000) and 1000*((dH - dG)/T), and
\* Temperature mode, whenever it returns, returns (dH - dG)/(dS/1000).
C7_GibbsHelmholtzFormulas ==
  \A c \in ThCalls :
    (c.mode \in {GIBBS_FREE_ENERGY, ENTHALPY, ENTROPY, TEMPERATURE}
       /\ Validated(c))
      => /\ c.mode # TEMPERATURE => Returned(c.out)
         /\ Returned(c.out)
              => c.out.val.calculated_value = GibbsHelmholtz(c)

\* C7 witness: Enthalpy mode returns 5 + 300 * (7 / 1000), rounded, from
\* dG = 5 kJ/mol, dS = 7 J/(mol K), T = 300 K.
C7_Witness ==
  /\ pc = "th_solved"
  /\ th.mode = ENTHALPY
  /\ th.params.delta_G_kJ_mol = Lit(5, 1)
  /\ th.params.delta_S_J_mol_K = Lit(7, 1)
  /\ th.params.temperature_K = Lit(300, 1)
  /\ Returned(th.out)
  /\ th.out.val.calculated_value
       = FAdd(Lit(5, 1), FMul(Lit(300, 1), FDiv(Lit(7, 1), Thousand)))
  /\ th.out.val.calculated_value # FAdd(Lit(5, 1), FMul(Lit(300, 1), Lit(7, 1)))

\* C8 (as claimed): Temperature mode with dG, dH and dS present fails when
\* dS = 0, and returns a value only when that value is > 0.
C8_TemperaturePhysical ==
  \A c \in ThCalls :
    (c.mode = TEMPERATURE /\ ~ThSomeRequiredAbsent(c))
      => /\ FEq0(c.params.delta_S_J_mol_K) => Raised(c.out)
         /\ Returned(c.out) => FGt0(c.out.val.calculated_value)

\* the part of C8 that the code does keep: dS = 0 fails with the error of
\* the mode, and a value <= 0 is not returned
C8_TemperatureNotZeroOrBelow ==
  \A c \in ThCalls :
    (c.mode = TEMPERATURE /\ ~ThSomeRequiredAbsent(c))
      => /\ (FEq0(c.params.delta_S_J_mol_K) /\ ~NonPositiveTOrK(c))
              => c.out = ThRaise("ValueError", MsgEntropyZero)
         /\ Returned(c.out) => ~FLe0(c.out.val.calculated_value)

\* the temperature arguments of a call
OnlyCelsius(c) ==
  ~IsNone(c.args.temperature_C) /\ IsNone(c.args.temperature_K)
BothTemperatures(c) ==
  ~IsNone(c.args.temperature_C) /\ ~IsNone(c.args.temperature_K)
NoTemperature(c) ==
  IsNone(c.args.temperature_C) /\ IsNone(c.args.temperature_K)

\* C9: with only Celsius given the call behaves as with Kelvin = C + 273.15
\* given; with both given the Kelvin value is kept and the call behaves as
\* if Celsius had not been given; with neither the temperature is absent.
C9_KelvinDerivation ==
  \A c \in ThCalls :
    /\ OnlyCelsius(c)
         => /\ c.params.temperature_K
                 = FAdd(c.args.temperature_C, CelsiusOffset)
            /\ c.out = calculate_thermodynamics(
                         [c.args EXCEPT !.temperature_K =
                            FAdd(c.args.temperature_C, CelsiusOffset)],
                         c.mode)
    /\ BothTemperatures(c)
         => /\ c.params.temperature_K = c.args.temperature_K
            /\ c.out = calculate_thermodynamics(
                         [c.args EXCEPT !.temperature_C = None], c.mode)
    /\ NoTemperature(c) => IsNone(c.params.temperature_K)

\* C9 witness: both given, -300 C alone would map to T <= 0, and the call
\* returns dG for T = 300 K.
C9_Witness ==
  /\ pc = "th_solved"
  /\ th.mode = GIBBS_FREE_ENERGY
  /\ th.args.temperature_C = Lit(0 - 300, 1)
  /\ th.args.temperature_K = Lit(300, 1)
  /\ FLt0(FAdd(th.args.temperature_C, CelsiusOffset))
  /\ Returned(th.out)
  /\ th.out.val.calculated_value
       = FSub(th.args.delta_H_kJ_mol,
              FMul(Lit(300, 1), FDiv(th.args.delta_S_J_mol_K, Thousand)))

\* the inputs of the first call of a round trip and what it computes
RT_dH == th.params.delta_H_kJ_mol
RT_dS == th.params.delta_S_J_mol_K
RT_T == th.params.temperature_K
RT_dG == th.out.val.calculated_value
RT_TdS == FMul(RT_T, FDiv(RT_dS, Thousand))

\* what the second call of a round trip returns, and the input it is to
\* reproduce
RT_Back == th2.out.val.calculated_value
RT_Original == IF th2.mode = ENTHALPY THEN RT_dH ELSE RT_dS

\* C10 (as claimed): for T > 0, feeding the dG of GibbsFreeEnergy mode with
\* dS and T to Enthalpy mode returns dH, and with dH and T to Entropy mode
\* returns dS.
C10_RoundTripReturnsOriginal ==
  (pc = "th_inverted" /\ FGt0(RT_T))
    => Returned(th2.out) /\ FEq(RT_Back, RT_Original)

\* finite, and zero or of full precision: neither overflowed nor underflowed
InRange(x) == IsFin(x) /\ (IsZero(x) \/ Normal(x))

\* dH, dS and T > 0 are finite and nothing the two calls compute overflows
\* or underflows
RT_InRange ==
  /\ IsFin(RT_dH) /\ IsFin(RT_dS) /\ IsFin(RT_T) /\ FGt0(RT_T)
  /\ InRange(FDiv(RT_dS, Thousand)) /\ InRange(RT_TdS)
  /\ InRange(RT_dG)
  /\ Returned(th2.out) => InRange(RT_Back)
  /\ th2.mode = ENTROPY
       => /\ InRange(FSub(RT_dH, RT_dG))
          /\ InRange(FDiv(FSub(RT_dH, RT_dG), RT_T))

\* 2^k / d rounded down, for d > 0, capped at 2^30
Pow2Over(k, d) ==
  IF k < 0 THEN 0
  ELSE IF k <= 30 THEN Pow2(k) \div d
  ELSE IF k - BitLen(d) >= 30 THEN Pow2(30)
  ELSE (Pow2(30) \div d) * Pow2(k - 30)

\* 2048 * ulp / T for a finite T > 0 and the unit in the last place of x,
\* rounded down, in units of the smallest positive float
ScaledUlpOverT(x, T) == Pow2Over(11 + UlpExp(x) - Qmin - T.e, T.m)

\* the rounding error that the round trip can leave in dH: one unit in the
\* last place of the larger of dG and the value returned
EnthalpyTolerance == Max(UlpUnits(RT_dG), UlpUnits(RT_Back))

\* and in dS: 5 units in the last place of dS, and 2048/T units in the last
\* place of the larger of dG and dH - dG
EntropyTolerance ==
  5 * UlpUnits(RT_dS)
    + Max(ScaledUlpOverT(RT_dG, RT_T),
          ScaledUlpOverT(FSub(RT_dH, RT_dG), RT_T))

\* dG = dH - T*(dS/1000) was computed without rounding
RT_ExactDifference == Units(RT_dG) = Units(RT_dH) - Units(RT_TdS)

\* C10 (amended): for finite dH, dS and T > 0, when nothing overflows or
\* underflows, the second call succeeds; Enthalpy mode returns dH to within
\* one unit in the last place of the larger of dG and its result, and
\* exactly when dH - T*(dS/1000) was computed without rounding; Entropy mode
\* returns dS to within 5 units in the last place of dS plus 2048/T units
\* in the last place of the larger of dG and dH - dG.
C10_RoundTripWithinRounding ==
  (pc = "th_inverted" /\ RT_InRange)
    => /\ Returned(th2.out)
       /\ th2.mode = ENTHALPY
            => /\ Abs(Units(RT_Back) - Units(RT_dH)) <= EnthalpyTolerance
               /\ RT_ExactDifference => RT_Back = RT_dH
       /\ th2.mode = ENTROPY
            => Abs(Units(RT_Back) - Units(RT_dS)) <= EntropyTolerance

\* C10 witness: dH = 0.1, dS = 100, T = 300: dG is rounded, and Enthalpy
\* mode returns a value that is not dH but is within the tolerance.
C10_Witness ==
  /\ pc = "th_inverted"
  /\ RT_InRange
  /\ th2.mode = ENTHALPY
  /\ RT_dH = Lit(1, 10) /\ RT_dS = Lit(100, 1) /\ RT_T = Lit(300, 1)
  /\ ~RT_ExactDifference
  /\ Returned(th2.out)
  /\ RT_Back # RT_dH
  /\ Abs(Units(RT_Back) - Units(RT_dH)) <= EnthalpyTolerance

\* the inputs of an EquilibriumConstant call, the exponent it forms, the K
\* it returns and what GibbsFromK mode makes of that K
KQ_dG == th.params.delta_G_kJ_mol
KQ_T == th.params.temperature_K
KQ_Exponent ==
  FDiv(FNeg(FMul(KQ_dG, Thousand)), FMul(R_GAS_CONSTANT, KQ_T))
KQ_K == th.out.val.calculated_value
KQ_Back == th2.out.val.calculated_value

\* C11 (as claimed): at a T > 0 the K of EquilibriumConstant mode is > 0, is
\* accepted by GibbsFromK mode, and GibbsFromK mode returns the original dG.
C11_MutualInverses ==
  (pc = "keq_inverted" /\ FGt0(KQ_T))
    => /\ FGt0(KQ_K)
       /\ Returned(th2.out)
       /\ FEq(KQ_Back, KQ_dG)

\* dG and T > 0 are finite and nothing the two calls compute overflows or
\* underflows
KQ_InRange ==
  /\ IsFin(KQ_dG) /\ IsFin(KQ_T) /\ FGt0(KQ_T)
  /\ InRange(FMul(KQ_dG, Thousand))
  /\ Normal(FMul(R_GAS_CONSTANT, KQ_T))
  /\ InRange(KQ_Exponent)
  /\ Normal(KQ_K)
  /\ InRange(FLog(KQ_K))
  /\ InRange(FMul(FMul(FNeg(R_GAS_CONSTANT), KQ_T), FLog(KQ_K)))
  /\ Returned(th2.out) => InRange(KQ_Back)

\* the rounding error that the round trip can leave in dG: 8 units in the
\* last place of dG and 8 of R*T/1000
KeqTolerance ==
  8 * UlpUnits(KQ_dG)
    + 8 * UlpUnits(FDiv(FMul(R_GAS_CONSTANT, KQ_T), Thousand))

\* C11 (amended): at a finite T > 0 the K of EquilibriumConstant mode is
\* > 0 unless exp underflows to 0 on a negative exponent, and a K of 0 is
\* rejected by GibbsFromK mode; when nothing overflows or underflows,
\* GibbsFromK mode accepts K and returns dG to within 8 units in the last
\* place of dG plus 8 units in the last place of R*T/1000.
C11_InversesWithinRounding ==
  pc = "keq_inverted"
    => /\ ~IsNaN(KQ_Exponent)
            => \/ FGt0(KQ_K)
               \/ /\ IsZero(KQ_K) /\ FLt0(KQ_Exponent)
                  /\ th2.out = ThRaise("ValueError", MsgKPositive)
       /\ KQ_InRange
            => /\ Returned(th2.out)
               /\ Abs(Units(KQ_Back) - Units(KQ_dG)) <= KeqTolerance

\* C11 witness: dG = 0.1 kJ/mol at T = 20 K gives 0 < K < 1, and GibbsFromK
\* mode returns a value that is not dG but is within the tolerance.
C11_Witness ==
  /\ pc = "keq_inverted"
  /\ KQ_InRange
  /\ KQ_dG = Lit(1, 10) /\ KQ_T = Lit(20, 1)
  /\ FGt0(KQ_K)
  /\ Returned(th2.out)
  /\ KQ_Back # KQ_dG
  /\ Abs(Units(KQ_Back) - Units(KQ_dG)) <= KeqTolerance

(***************************************************************************)
(* linear_regression: the vocabulary of the claims.  Every failure is a    *)
(* ValueError; its message tells the kind.                                 *)
(***************************************************************************)
LR_Points == lr.data_points
LR_N == Len(lr.data_points)
LR_X == FitX(lr.data_points)
LR_Y == FitY(lr.data_points)

InsufficientData(out) == out = LrRaise(MsgAtLeastTwoPoints)
DegenerateInput(out) ==
  out = LrRaise(MsgTwoDifferent) \/ out = LrRaise(MsgAllIdentical)
NegativeData(out) == out = LrRaise(MsgNonNegative)

LR_AllXIdentical == \A i \in 1..LR_N : LR_X[i] = LR_X[1]
LR_SomeNegative == \E i \in 1..LR_N : FLt0(LR_X[i]) \/ FLt0(LR_Y[i])

\* C12 (as claimed): fewer than 2 points (none included) fail as
\* insufficient data, and 2 or more points whose x are all identical fail
\* as degenerate input.
C12_SizeThenDegenerate ==
  pc = "fitted"
    => /\ LR_N < 2 => InsufficientData(lr.out)
       /\ (LR_N >= 2 /\ LR_AllXIdentical) => DegenerateInput(lr.out)

\* C12 (amended): fewer than 2 points fail as insufficient data whatever
\* they hold; 2 or more points whose x are all identical fail as degenerate
\* input when no coordinate is negative, and as negative data when one is.
C12_SizeThenSignThenDegenerate ==
  pc = "fitted"
    => /\ LR_N < 2 => InsufficientData(lr.out)
       /\ (LR_N >= 2 /\ LR_AllXIdentical /\ ~LR_SomeNegative)
            => DegenerateInput(lr.out)
       /\ (LR_N >= 2 /\ LR_AllXIdentical /\ LR_SomeNegative)
            => NegativeData(lr.out)

\* C12 witness: three points at x = 2 with different y are rejected as
\* degenerate input.
C12_Witness ==
  /\ pc = "fitted"
  /\ LR_N = 3
  /\ LR_AllXIdentical /\ ~LR_SomeNegative
  /\ LR_X[1] = Lit(2, 1)
  /\ Cardinality({LR_Y[i] : i \in 1..LR_N}) = 3
  /\ DegenerateInput(lr.out)

LR_AllFinite == \A i \in 1..LR_N : IsFin(LR_X[i]) /\ IsFin(LR_Y[i])
LR_DistinctX == \E i, j \in 1..LR_N : LR_X[i] # LR_X[j]

\* C13 (as claimed): 2 or more points with finite coordinates of any sign
\* and two distinct x give a result, and a failure is insufficient data or
\* degenerate input.
C13_ReturnsWhateverTheSign ==
  pc = "fitted"
    => /\ (LR_N >= 2 /\ LR_AllFinite /\ LR_DistinctX) => Returned(lr.out)
       /\ ~Returned(lr.out)
            => InsufficientData(lr.out) \/ DegenerateInput(lr.out)

\* the square of half this difference is the smallest positive float, so two
\* x this far apart leave a sum of squared deviations that is not 0
\* (binary64: 2^-536)
SpreadMin == [k |-> "fin", m |-> 1, e |-> 1 - (EminMag \div 2)]
LR_SpreadX ==
  \E i, j \in 1..LR_N :
    /\ IsFin(LR_X[i]) /\ IsFin(LR_X[j])
    /\ Units(LR_X[i]) - Units(LR_X[j]) >= Units(SpreadMin)

\* C13 (amended): 2 or more points with finite coordinates, none negative,
\* and two x at least SpreadMin apart give a result; a negative coordinate
\* is rejected as negative data; distinct x that give no result are rejected
\* because their squared deviations sum to 0; a failure is insufficient
\* data, negative data or degenerate input.
C13_ReturnsForNonNegativeSpreadData ==
  pc = "fitted"
    => /\ (LR_N >= 2 /\ LR_AllFinite /\ ~LR_SomeNegative /\ LR_SpreadX)
            => Returned(lr.out)
       /\ (LR_N >= 2 /\ LR_SomeNegative) => NegativeData(lr.out)
       /\ (LR_N >= 2 /\ ~LR_SomeNegative /\ LR_DistinctX
             /\ ~Returned(lr.out))
            => /\ lr.out = LrRaise(MsgAllIdentical)
               /\ ~LR_SpreadX
       /\ ~Returned(lr.out)
            => \/ InsufficientData(lr.out)
               \/ NegativeData(lr.out)
               \/ DegenerateInput(lr.out)

\* C13 witness: the points (0, 1), (1, 2), (2, 2), on no common line, give
\* a result with a finite slope.
C13_Witness ==
  /\ pc = "fitted"
  /\ lr.data_points = <<DataPoint(Zero, Lit(1, 1)),
                         DataPoint(Lit(1, 1), Lit(2, 1)),
                         DataPoint(Lit(2, 1), Lit(2, 1))>>
  /\ ~LR_SomeNegative /\ LR_SpreadX
  /\ Returned(lr.out)
  /\ IsFin(lr.out.val.slope) /\ ~IsZero(lr.out.val.slope)

\* the sums of the claimed formulas, in the order numpy adds
LR_XMean == NpMean(LR_X)
LR_YMean == NpMean(LR_Y)
LR_Sxy ==
  NpSum(ArrMul(ArrSubScalar(LR_X, LR_XMean), ArrSubScalar(LR_Y, LR_YMean)))
LR_Sxx == NpSum(ArrSquare(ArrSubScalar(LR_X, LR_XMean)))
LR_Fit == lr.out.val

\* a float that is an integer, and that integer
IsInt(x) == IsFin(x) /\ x.e >= 0
IntVal(x) == x.m * Pow2(x.e)

\* the integer slopes and intercepts of the lines looked for
LineSlopes == {0 - 2, 0 - 1, 1, 2, 3}
LineIntercepts == {0 - 2, 0 - 1, 0, 1, 2}

\* every point has integer coordinates and lies on y = m*x + b
LR_OnLine(m, b) ==
  \A i \in 1..LR_N :
    /\ IsInt(LR_X[i]) /\ IsInt(LR_Y[i])
    /\ IntVal(LR_Y[i]) = m * IntVal(LR_X[i]) + b

LR_IsLine(m, b) ==
  /\ LR_Fit.slope = FromInt(m)
  /\ LR_Fit.intercept = FromInt(b)
  /\ LR_Fit.r_squared = FromInt(1)
  /\ LR_Fit.std_error = Zero

RECURSIVE IntSum(_, _)
IntSum(a, n) == IF n = 0 THEN 0 ELSE IntSum(a, n - 1) + IntVal(a[n])

\* the means of x and of y are integers
LR_IntegerMeans ==
  /\ IntSum(LR_X, LR_N) % LR_N = 0
  /\ IntSum(LR_Y, LR_N) % LR_N = 0

\* C14 (as claimed): a fit that returns has the slope and intercept of the
\* formulas, and on 3 or more points of a line y = m*x + b, m # 0, it
\* returns exactly m, b, R^2 = 1 and std_error = 0.
C14_CollinearExact ==
  (pc = "fitted" /\ Returned(lr.out))
    => /\ LR_Fit.slope = NpDiv(LR_Sxy, LR_Sxx)
       /\ LR_Fit.intercept = FSub(LR_YMean, FMul(LR_Fit.slope, LR_XMean))
       /\ \A m \in LineSlopes, b \in LineIntercepts :
            (LR_N >= 3 /\ LR_OnLine(m, b)) => LR_IsLine(m, b)

\* C14 (amended): a fit that returns has the slope and intercept of the
\* formulas, computed in floats; on 3 or more points with integer
\* coordinates of a line y = m*x + b with integers m # 0 and b, it returns
\* exactly m, b, R^2 = 1 and std_error = 0 when the means of x and of y are
\* integers.
C14_CollinearExactOnIntegerMeans ==
  (pc = "fitted" /\ Returned(lr.out))
    => /\ LR_Fit.slope = NpDiv(LR_Sxy, LR_Sxx)
       /\ LR_Fit.intercept = FSub(LR_YMean, FMul(LR_Fit.slope, LR_XMean))
       /\ \A m \in LineSlopes, b \in LineIntercepts :
            (LR_N >= 3 /\ LR_OnLine(m, b) /\ LR_IntegerMeans)
              => LR_IsLine(m, b)

\* C14 witness: (0, 0), (1, 2), (2, 4) give slope 2, intercept 0, R^2 = 1
\* and std_error = 0.
C14_Witness ==
  /\ pc = "fitted"
  /\ lr.data_points = <<DataPoint(Zero, Zero),
                         DataPoint(Lit(1, 1), Lit(2, 1)),
                         DataPoint(Lit(2, 1), Lit(4, 1))>>
  /\ Returned(lr.out)
  /\ LR_OnLine(2, 0) /\ LR_IntegerMeans
  /\ LR_IsLine(2, 0)

\* the sums of squares of a returned fit: of the residuals about the
\* returned line, and of y about its mean
LR_SsRes ==
  NpSum(ArrSquare(ArrSub(LR_Y, ArrLine(LR_Fit.slope, LR_X,
                                       LR_Fit.intercept))))
LR_SsTot == NpSum(ArrSquare(ArrSubScalar(LR_Y, LR_YMean)))

\* C15: a returned fit has R^2 = 0 when SS_tot = 0 and
\* 1 - SS_res / SS_tot otherwise, and std_error = 0 on 2 points and
\* sqrt((SS_res / (n - 2)) / Sxx) on more; the zeros are exact, not the NaN
\* or infinity a division by 0 would leave.
C15_ZeroDefaults ==
  (pc = "fitted" /\ Returned(lr.out))
    => /\ FEq0(LR_SsTot) => LR_Fit.r_squared = Zero
       /\ ~FEq0(LR_SsTot)
            => LR_Fit.r_squared
                 = FSub(FromInt(1), NpDiv(LR_SsRes, LR_SsTot))
       /\ LR_N = 2 => LR_Fit.std_error = Zero
       /\ LR_N > 2
            => LR_Fit.std_error
                 = FSqrt(NpDiv(NpDiv(LR_SsRes, FromInt(LR_N - 2)), LR_Sxx))

\* C15 witness: the two points (1, 2), (2, 2) have SS_tot = 0 and n = 2;
\* the fit returns R^2 = 0 and std_error = 0.
C15_Witness ==
  /\ pc = "fitted"
  /\ lr.data_points = <<DataPoint(Lit(1, 1), Lit(2, 1)),
                         DataPoint(Lit(2, 1), Lit(2, 1))>>
  /\ Returned(lr.out)
  /\ FEq0(LR_SsTot)
  /\ LR_Fit.r_squared = Zero /\ LR_Fit.std_error = Zero

\* a fit on 3 points off a line, where both divisions are made
C15_WitnessDivides ==
  /\ pc = "fitted"
  /\ LR_N = 3 /\ Returned(lr.out)
  /\ ~FEq0(LR_SsTot) /\ ~FEq0(LR_SsRes)
  /\ FGt0(LR_Fit.std_error)
  /\ FGt0(LR_Fit.r_squared)

\* the fit of the same points without a path length
LR_BareFit == linear_regression(LR_Points, None).val
LR_PathPositive == ~IsNone(lr.path_length) /\ FGt0(lr.path_length)

\* C16: a returned fit carries epsilon = slope / path_length when a path
\* length > 0 was given, and no epsilon when it was absent, zero or
\* negative; its other four values are those of the fit without a path
\* length.
C16_EpsilonIffPositivePath ==
  (pc = "fitted" /\ Returned(lr.out))
    => /\ LR_PathPositive
            => /\ ~IsNone(LR_Fit.epsilon)
               /\ LR_Fit.epsilon = NpDiv(LR_Fit.slope, lr.path_length)
       /\ ~LR_PathPositive => LR_Fit = LR_BareFit
       /\ [LR_Fit EXCEPT !.epsilon = None] = LR_BareFit

\* C16 witness: (0, 0), (1, 2), (2, 4) with path length 2 give slope 2 and
\* epsilon 1.
C16_Witness ==
  /\ pc = "fitted"
  /\ lr.data_points = <<DataPoint(Zero, Zero),
                         DataPoint(Lit(1, 1), Lit(2, 1)),
                         DataPoint(Lit(2, 1), Lit(4, 1))>>
  /\ lr.path_length = Lit(2, 1)
  /\ Returned(lr.out)
  /\ LR_Fit.slope = Lit(2, 1)
  /\ LR_Fit.epsilon = Lit(1, 1)

\* the same points with a path length of 0 or below give no epsilon
C16_WitnessAbsent ==
  /\ pc = "fitted"
  /\ ~IsNone(lr.path_length) /\ FLe0(lr.path_length)
  /\ Returned(lr.out)
  /\ IsNone(LR_Fit.epsilon)

(***************************************************************************)
(* generate_standard_curve_points: the vocabulary of the claims            *)
(***************************************************************************)
GC_Called == pc \in {"curve", "curve_again"}
GC_N == gc.num_points
GC_Max == gc.max_concentration
GC_Curve == gc.out.val
GC_Conc(i) == GC_Curve[i].concentration
GC_Abs(i) == GC_Curve[i].absorbance
GC_Step == NpDiv(GC_Max, FromInt(GC_N - 1))

GC_Increasing ==
  \A i \in 1..(Len(GC_Curve) - 1) :
    /\ IsFin(GC_Conc(i)) /\ IsFin(GC_Conc(i + 1))
    /\ Units(GC_Conc(i)) < Units(GC_Conc(i + 1))

GC_BeerLambert ==
  \A i \in 1..Len(GC_Curve) :
    GC_Abs(i) = FMul(FMul(gc.epsilon, gc.path_length), GC_Conc(i))

\* C17 (as claimed), for 1 or more points up to a finite maximum > 0: the
\* curve has num_points points of increasing concentration, the first at 0
\* and the last at the maximum, each with absorbance epsilon * l * c, and a
\* second call returns the same curve.
C17_CurveToMaximum ==
  (GC_Called /\ GC_N >= 1 /\ IsFin(GC_Max) /\ FGt0(GC_Max))
    => /\ Returned(gc.out)
       /\ Len(GC_Curve) = GC_N
       /\ GC_Conc(1) = Zero
       /\ GC_Conc(GC_N) = GC_Max
       /\ GC_Increasing
       /\ GC_BeerLambert
       /\ pc = "curve_again" => gc.again = gc.out

\* two neighbouring concentrations are a step apart, to within 2 units in
\* the last place of the maximum
GC_EvenlySpaced ==
  \A i \in 1..(Len(GC_Curve) - 1) :
    Abs(Units(GC_Conc(i + 1)) - Units(GC_Conc(i)) - Units(GC_Step))
      <= 2 * UlpUnits(GC_Max)

\* C17 (amended): the curve has num_points points, each with absorbance
\* (epsilon * l) * c, and a second call returns the same curve; one point
\* alone is at 0; of 2 or more points up to a finite maximum the first is
\* at 0 and the last at the maximum; when also the maximum is > 0 and the
\* step max / (num_points - 1) does not underflow, the concentrations
\* increase, all but the last are the multiples of the step, rounded, and
\* neighbours are a step apart to within rounding.
C17_CurveOfTwoOrMorePoints ==
  (GC_Called /\ GC_N >= 0 /\ IsFin(GC_Max))
    => /\ Returned(gc.out)
       /\ Len(GC_Curve) = GC_N
       /\ GC_BeerLambert
       /\ pc = "curve_again" => gc.again = gc.out
       /\ GC_N >= 1 => GC_Conc(1) = Zero
       /\ GC_N >= 2 => GC_Conc(GC_N) = GC_Max
       /\ (GC_N >= 2 /\ FGt0(GC_Max) /\ Normal(GC_Step))
            => /\ GC_Increasing
               /\ \A i \in 1..(GC_N - 1) :
                    GC_Conc(i) = FMul(FromInt(i - 1), GC_Step)
               /\ GC_EvenlySpaced

\* C17 witness: 4 points up to 1 with epsilon = 3 and l = 5.3: the step 1/3
\* is rounded, the last point is at 1, and the second call agrees.
C17_Witness ==
  /\ pc = "curve_again"
  /\ GC_N = 4 /\ GC_Max = Lit(1, 1)
  /\ gc.epsilon = Lit(3, 1) /\ gc.path_length = Lit(53, 10)
  /\ Returned(gc.out) /\ Len(GC_Curve) = 4
  /\ GC_Conc(1) = Zero /\ GC_Conc(4) = Lit(1, 1)
  /\ GC_Conc(2) = Lit(1, 3)
  /\ GC_Increasing
  /\ gc.again = gc.out

(***************************************************************************)
(* generate_van_hoff_plot: the vocabulary of the claims                    *)
(***************************************************************************)
VH_Called == pc = "van_hoff"
VH_N == Len(vh.data_points)
VH_T == VanHoffT(vh.data_points)
VH_K == VanHoffK(vh.data_points)
VH_SomeNonPositive == \E i \in 1..VH_N : FLe0(VH_T[i]) \/ FLe0(VH_K[i])
VH_Rejected == vh.out.signal = "error"
VH_Plotted == vh.out.signal = "plot_data_updated"

\* C18: a dataset of fewer than 2 points is rejected for its size, whatever
\* its values; one of 2 or more points with a T <= 0 or a K <= 0 is
\* rejected for that; a rejected dataset is not transformed to 1/T and
\* ln(K) and no plot data come of it.
C18_SizeThenPositivity ==
  VH_Called
    => /\ VH_N < 2 => vh.out = EmitError(MsgVanHoffTwoPoints)
       /\ (VH_N >= 2 /\ VH_SomeNonPositive)
            => vh.out = EmitError(MsgVanHoffPositive)
       /\ VH_Rejected
            => /\ ~vh.out.transformed
               /\ vh.out.plot = NoPlot
               /\ VH_N < 2 \/ VH_SomeNonPositive

\* C18 witness: the single point (0, 2) is rejected for the size of the
\* dataset, not for its temperature of 0.
C18_Witness ==
  /\ VH_Called
  /\ VH_N = 1 /\ VH_SomeNonPositive
  /\ vh.out = EmitError(MsgVanHoffTwoPoints)
  /\ ~vh.out.transformed

\* two points, one at a temperature of 0, are rejected for that
C18_WitnessPositivity ==
  /\ VH_Called
  /\ VH_N = 2 /\ \E i \in 1..VH_N : IsZero(VH_T[i])
  /\ vh.out = EmitError(MsgVanHoffPositive)

VH_Results == vh.out.plot.results
VH_Line == vh.out.plot.regression_line
VH_InvT == ArrInverse(VH_T)
VH_LnK == ArrLog(VH_K)

\* x is the least, or the greatest, of the 1/T
VH_IsMinInvT(x) ==
  /\ \E i \in 1..VH_N : VH_InvT[i] = x
  /\ \A i \in 1..VH_N : ~FLt(VH_InvT[i], x)
VH_IsMaxInvT(x) ==
  /\ \E i \in 1..VH_N : VH_InvT[i] = x
  /\ \A i \in 1..VH_N : ~FLt(x, VH_InvT[i])

\* C19: a plot reports the slope and intercept of the fit of ln K on 1/T,
\* dH = -slope * R / 1000 and dS = intercept * R with R = 8.314, and a
\* regression line of exactly 100 points, the first at the least 1/T, the
\* last at the greatest, each with y = slope * x + intercept.
C19_ParametersAndLine ==
  (VH_Called /\ VH_Plotted)
    => /\ \E err \in PolyfitErrors :
            LET fit == np_polyfit(VH_InvT, VH_LnK, err)
            IN /\ VH_Results.slope = fit.slope
               /\ VH_Results.intercept = fit.intercept
       /\ VH_Results.delta_H
            = FDiv(FMul(FNeg(VH_Results.slope), Lit(8314, 1000)),
                   Lit(1000, 1))
       /\ VH_Results.delta_S = FMul(VH_Results.intercept, Lit(8314, 1000))
       /\ Len(VH_Line) = 100
       /\ VH_IsMinInvT(VH_Line[1][1])
       /\ VH_IsMaxInvT(VH_Line[100][1])
       /\ \A j \in 1..Len(VH_Line) :
            VH_Line[j][2]
              = FAdd(FMul(VH_Results.slope, VH_Line[j][1]),
                     VH_Results.intercept)

\* C19 witness: (1, 2), (3, 4), (3, 8) give a falling line (dH > 0) of 100
\* points from 1/3 to 1.
C19_Witness ==
  /\ VH_Called /\ VH_Plotted
  /\ vh.data_points = <<<<Lit(1, 1), Lit(2, 1)>>, <<Lit(3, 1), Lit(4, 1)>>,
                         <<Lit(3, 1), Lit(8, 1)>>>>
  /\ FLt0(VH_Results.slope) /\ FGt0(VH_Results.delta_H)
  /\ FGt0(VH_Results.delta_S)
  /\ Len(VH_Line) = 100
  /\ VH_Line[1][1] = Lit(1, 3) /\ VH_Line[100][1] = Lit(1, 1)

\* C20 (as claimed): 2 or more points, all at one temperature > 0 with
\* K > 0, are rejected.
C20_SameTemperatureRejected ==
  (VH_Called /\ VH_N >= 2 /\ ~VH_SomeNonPositive
     /\ \A i \in 1..VH_N : VH_T[i] = VH_T[1])
    => VH_Rejected

\* what the method does with them: it plots a line through the one 1/T
C20_SameTemperaturePlotted ==
  /\ VH_Called /\ VH_N >= 2 /\ ~VH_SomeNonPositive
  /\ \A i \in 1..VH_N : VH_T[i] = VH_T[1]
  /\ VH_Plotted
  /\ VH_Line[1][1] = VH_Line[100][1]

(***************************************************************************)
(* The two regressions side by side                                        *)
(***************************************************************************)
\* the transformed points (1/T, ln K) of the van't Hoff call, as the data
\* points fitStandardCurve takes, and what linear_regression makes of them
VH_Transformed == [i \in 1..VH_N |-> DataPoint(VH_InvT[i], VH_LnK[i])]
VH_Shared == linear_regression(VH_Transformed, None)

\* C21 (as claimed): for a dataset of 2 or more positive points the van't
\* Hoff analysis plots exactly when linear_regression returns on the
\* transformed points (1/T, ln K), and then the slope, the intercept and
\* R^2 of the plot are the ones linear_regression returns.
C21_SharedRegression ==
  (VH_Called /\ VH_N >= 2 /\ ~VH_SomeNonPositive)
    => /\ VH_Plotted <=> Returned(VH_Shared)
       /\ VH_Plotted
            => /\ VH_Results.slope = VH_Shared.val.slope
               /\ VH_Results.intercept = VH_Shared.val.intercept
               /\ VH_Results.r_squared = VH_Shared.val.r_squared

\* what the code does with K < 1 at two temperatures: the analysis plots a
\* line, linear_regression rejects the negative ln K
C21_FractionPlottedNotFitted ==
  /\ VH_Called /\ VH_N = 2 /\ ~VH_SomeNonPositive
  /\ VH_T[1] # VH_T[2]
  /\ \A i \in 1..VH_N : FLt0(VH_LnK[i])
  /\ VH_Plotted
  /\ NegativeData(VH_Shared)

(***************************************************************************)
(* The caller's lists: the vocabulary of C22                               *)
(***************************************************************************)
CS_Called == pc = "session" /\ cs.calls > 0

C22_WitnessFailed ==
  /\ CS_Called /\ cs.last = "vh"
  /\ cs.vh_last.signal = "error"
  /\ Len(cs.vh_list) = 2 /\ cs.vh_list = cs.passed

(***************************************************************************)
(* The temperature sweeps and the values delivered: the vocabulary of C23  *)
(***************************************************************************)
SW_Called == pc = "sweep"
SW_Plotted == sw.out.signal = "plot_data_updated"
SW_X == sw.out.plot.x
SW_Y == sw.out.plot.y

\* every value an operation delivered is a finite number
BL_DeliversFinite == \A c \in BLCalls : Returned(c.out) => IsFin(c.out.val)
TH_DeliversFinite ==
  \A c \in ThCalls : Returned(c.out) => IsFin(c.out.val.calculated_value)
LR_DeliversFinite ==
  Returned(lr.out)
    => /\ IsFin(lr.out.val.slope) /\ IsFin(lr.out.val.intercept)
       /\ IsFin(lr.out.val.r_squared) /\ IsFin(lr.out.val.std_error)
       /\ IsNone(lr.out.val.epsilon) \/ IsFin(lr.out.val.epsilon)
GC_DeliversFinite ==
  Returned(gc.out)
    => \A i \in 1..Len(gc.out.val) :
         IsFin(gc.out.val[i].concentration) /\ IsFin(gc.out.val[i].absorbance)
VH_DeliversFinite ==
  vh.out.signal = "plot_data_updated"
    => /\ IsFin(vh.out.plot.results.slope)
       /\ IsFin(vh.out.plot.results.intercept)
       /\ IsFin(vh.out.plot.results.delta_H)
       /\ IsFin(vh.out.plot.results.delta_S)
       /\ IsFin(vh.out.plot.results.r_squared)
       /\ \A j \in 1..Len(vh.out.plot.regression_line) :
            /\ IsFin(vh.out.plot.regression_line[j][1])
            /\ IsFin(vh.out.plot.regression_line[j][2])
SW_DeliversFinite ==
  SW_Plotted
    => \A i \in 1..Len(SW_X) : IsFin(SW_X[i]) /\ IsFin(SW_Y[i])

\* C23 (as claimed): no operation delivers a result that holds a value
\* that is not finite: a solve, a regression, a generated curve, a van't
\* Hoff plot or a sweep either reports an error or delivers finite numbers.
C23_NoNonFiniteLeak ==
  /\ BL_DeliversFinite /\ TH_DeliversFinite /\ LR_DeliversFinite
  /\ GC_DeliversFinite /\ VH_DeliversFinite /\ SW_DeliversFinite

\* what the code does with a sweep of K from T = 0 at dG < 0: the plot is
\* emitted and its first K is infinite
C23_SweepFromZeroLeaksInf ==
  /\ SW_Called /\ sw.kind = "equilibrium"
  /\ sw.temp_range = <<Zero, Lit(2, 1)>> /\ sw.delta_G = Lit(0 - 1, 16)
  /\ SW_Plotted
  /\ IsZero(SW_X[1]) /\ IsInf(SW_Y[1])
  /\ IsFin(SW_Y[SweepPoints])

\* and with dG = nan in a range of positive T: every K is nan
C23_SweepOfNaNLeaksNaN ==
  /\ SW_Called /\ sw.kind = "equilibrium"
  /\ sw.temp_range = <<Lit(1, 1), Lit(2, 1)>> /\ IsNaN(sw.delta_G)
  /\ SW_Plotted
  /\ \A i \in 1..SweepPoints : IsNaN(SW_Y[i])

(***************************************************************************)
(* BeerLambertVM: the vocabulary of C25, C26 and C27                       *)
(***************************************************************************)
VM_Called == pc = "vm"
VM_Store == blvm.vm.data_points
VM_Before == blvm.before.data_points
VM_Op(op) == VM_Called /\ blvm.op = op
VM_Signals == [i \in 1..Len(blvm.emitted) |-> blvm.emitted[i].signal]

\* x >= 0 as Python compares floats: false for nan
FGe0(x) == IsZero(x) \/ FGt0(x)

\* C25 (as claimed): every stored point has concentration >= 0 and
\* absorbance >= 0; an add with a negative coordinate emits error and only
\* error and leaves the list as it was; a remove with an index outside
\* 0..len-1 leaves the list as it was and emits nothing.
C25_StoreNonNegative ==
  VM_Called
    => /\ \A i \in 1..Len(VM_Store) :
            FGe0(VM_Store[i].concentration) /\ FGe0(VM_Store[i].absorbance)
       /\ (VM_Op("add_data_point")
             /\ (FLt0(blvm.args[1]) \/ FLt0(blvm.args[2])))
            => /\ VM_Signals = <<"error">>
               /\ VM_Store = VM_Before
       /\ (VM_Op("remove_data_point")
             /\ (blvm.args[1] < 0 \/ blvm.args[1] >= Len(VM_Before)))
            => /\ blvm.emitted = <<>>
               /\ VM_Store = VM_Before

\* what the code does with add_data_point(1.0, nan): the point is stored
\* and the curve is updated
C25_NaNStored ==
  /\ VM_Op("add_data_point")
  /\ blvm.args = <<Lit(1, 1), NaN>>
  /\ VM_Store = Append(VM_Before, DataPoint(Lit(1, 1), NaN))
  /\ VM_Signals = <<"curve_points_updated">>

\* C26: perform_linear_regression emits either regression_completed and
\* then one curve_points_updated that carries the stored points and a
\* regression line of two ends, or error alone; with fewer than 2 stored
\* points it emits error alone; the object is the same after the call.
VM_CurvePayload == blvm.emitted[2].payload
C26_OneOutcomeInOrder ==
  VM_Op("perform_linear_regression")
    => /\ \/ VM_Signals = <<"error">>
          \/ /\ VM_Signals = <<"regression_completed",
                                "curve_points_updated">>
             /\ Len(VM_CurvePayload) = 1
             /\ VM_CurvePayload[1].data_points
                  = [i \in 1..Len(VM_Store) |->
                       <<VM_Store[i].concentration,
                         VM_Store[i].absorbance>>]
             /\ Len(VM_CurvePayload[1].regression_line) = 2
       /\ Len(VM_Before) < 2 => VM_Signals = <<"error">>
       /\ blvm.vm = blvm.before

\* C26 witness: a regression of (0, 0), (1, 2), (2, 5) is announced and
\* the curve then redrawn with a line from x = 0 to x = 2.2.
C26_Witness ==
  /\ VM_Op("perform_linear_regression")
  /\ VM_Store = <<DataPoint(Zero, Zero), DataPoint(Lit(1, 1), Lit(2, 1)),
                  DataPoint(Lit(2, 1), Lit(5, 1))>>
  /\ VM_Signals = <<"regression_completed", "curve_points_updated">>
  /\ FGt0(blvm.emitted[1].payload.slope)
  /\ VM_CurvePayload[1].regression_line[1][1] = Zero
  /\ FGt0(FSub(VM_CurvePayload[1].regression_line[2][1], Lit(2, 1)))

\* a regression of two points of one concentration reports error alone
C26_WitnessError ==
  /\ VM_Op("perform_linear_regression")
  /\ Len(VM_Store) = 2
  /\ VM_Signals = <<"error">>
  /\ blvm.emitted[1].payload = MsgTwoDifferent

\* C27: path_length is a number > 0 in every state of the object; an
\* assignment of None, 0 or a negative value keeps the value it had; every
\* result perform_linear_regression emits carries an epsilon, the slope
\* divided by path_length.
C27_PathLengthPositive ==
  /\ ~IsNone(blvm.vm.path_length) /\ FGt0(blvm.vm.path_length)
  /\ (VM_Op("path_length")
        /\ (IsNone(blvm.args[1]) \/ FLe0(blvm.args[1])))
       => blvm.vm.path_length = blvm.before.path_length
  /\ (VM_Op("perform_linear_regression")
        /\ blvm.emitted[1].signal = "regression_completed")
       => /\ ~IsNone(blvm.emitted[1].payload.epsilon)
          /\ blvm.emitted[1].payload.epsilon
               = FDiv(blvm.emitted[1].payload.slope, blvm.vm.path_length)

\* C27 witness: with path_length 2 an assignment of -1 was ignored
C27_Witness ==
  /\ VM_Op("path_length")
  /\ blvm.args = <<Lit(0 - 1, 1)>>
  /\ blvm.before.path_length = Lit(2, 1)
  /\ blvm.vm.path_length = Lit(2, 1)

\* and a regression with path_length 2 emitted epsilon = slope / 2
C27_WitnessEpsilon ==
  /\ VM_Op("perform_linear_regression")
  /\ blvm.vm.path_length = Lit(2, 1)
  /\ blvm.emitted[1].signal = "regression_completed"
  /\ FGt0(blvm.emitted[1].payload.slope)
  /\ blvm.emitted[1].payload.epsilon
       = FDiv(blvm.emitted[1].payload.slope, Lit(2, 1))

(***************************************************************************)
(* BeerLambertVM.compute: the vocabulary of C30                            *)
(***************************************************************************)
VP_Compute == VM_Op("compute")
VP_AllPositive == \A i \in 1..3 : FGt0(blvm.args[i])

\* C30 (as claimed): compute with positive epsilon, path and conc emits
\* output_changed with epsilon * path * conc and nothing else, whatever
\* the calculation mode of the object.
C30_ComputeIsAbsorbance ==
  (VP_Compute /\ VP_AllPositive)
    => blvm.emitted
         = <<Emit("output_changed",
                  FMul(FMul(blvm.args[1], blvm.args[2]), blvm.args[3]))>>

\* what the code does once the mode is concentration: compute reports
\* that the quantities of that mode are missing
C30_ComputeInConcentrationMode ==
  /\ VP_Compute /\ VP_AllPositive
  /\ blvm.vm.calculation_mode = CONCENTRATION
  /\ blvm.emitted = <<Emit("error", MsgConcentrationRequired)>>

\* and in the mode of a new object it emits the absorbance
C30_ComputeInAbsorbanceMode ==
  /\ VP_Compute /\ VP_AllPositive
  /\ blvm.vm.calculation_mode = ABSORBANCE
  /\ blvm.args = <<Lit(3, 1), Lit(7, 10), Lit(53, 10)>>
  /\ blvm.emitted
       = <<Emit("output_changed",
                FMul(FMul(Lit(3, 1), Lit(7, 10)), Lit(53, 10)))>>

(***************************************************************************)
(* The data-entry tabs: the vocabulary of C24                              *)
(***************************************************************************)
Tab_Curve == pc = "curve_tab"
Tab_VanHoff == pc = "van_hoff_tab"
Tab_Rows == tab.t.rows

\* the data points of the tab as pairs, now and before the last action
Tab_PairsOf(t) ==
  IF Tab_Curve
    THEN [i \in 1..Len(t.vm.data_points) |->
            <<t.vm.data_points[i].concentration,
              t.vm.data_points[i].absorbance>>]
    ELSE t.data_points
Tab_Points == Tab_PairsOf(tab.t)
Tab_PointsBefore == Tab_PairsOf(tab.before)

\* row i shows point i
Tab_RowsShowPoints ==
  /\ Len(Tab_Rows) = Len(Tab_Points)
  /\ \A i \in 1..Len(Tab_Rows) :
       /\ Tab_Rows[i].cells[1][2] = Tab_Points[i][1]
       /\ Tab_Rows[i].cells[2][2] = Tab_Points[i][2]

\* C24 (as claimed): in both tabs, after any adds, removes and clears the
\* rows of the table show the data points in their order, and a press of
\* Remove in a row removes the data point of that row and no other.
C24_RowsAndRemove ==
  (Tab_Curve \/ Tab_VanHoff)
    => /\ Tab_RowsShowPoints
       /\ tab.op = "remove"
            => Tab_Points = ListPop(Tab_PointsBefore, tab.pressed)

\* what the code does after the first of three rows was removed: a press
\* of Remove in the row now first removes the point of the row below it
C24_RemoveHitsRowBelow ==
  /\ Tab_Curve /\ tab.op = "remove" /\ tab.pressed = 0
  /\ Len(Tab_PointsBefore) = 2
  /\ Tab_PointsBefore[1] # Tab_PointsBefore[2]
  /\ tab.before.rows[1].button = 1
  /\ Tab_Points = <<Tab_PointsBefore[1]>>
  /\ Tab_RowsShowPoints

\* or removes nothing at all, here in the van't Hoff tab
C24_RemoveDoesNothing ==
  /\ Tab_VanHoff /\ tab.op = "remove" /\ tab.pressed = 1
  /\ tab.before.rows[2].button = 2
  /\ Tab_Points = Tab_PointsBefore /\ Len(Tab_Points) = 2

(***************************************************************************)
(* ThermodynamicsViewModel.calculate_parameter: the vocabulary of C28      *)
(***************************************************************************)
TVM_Calculated == pc = "tvm" /\ tvm.op = "calculate_parameter"
TVM_Signals == [i \in 1..Len(tvm.emitted) |-> tvm.emitted[i].signal]
TVM_Failed == TVM_Calculated /\ TVM_Signals = <<"error">>

\* C28: a call of calculate_parameter emits one signal, calculation_completed
\* or error; last_result is the payload of the last calculation_completed
\* emitted so far, None before the first; a call that emits error leaves
\* last_result as it was, also when the mode was changed before it.
C28_OneSignalLastResultKept ==
  /\ TVM_Calculated
       => TVM_Signals \in {<<"calculation_completed">>, <<"error">>}
  /\ tvm.vm.last_result = tvm.completed
  /\ TVM_Failed => tvm.vm.last_result = tvm.before.last_result

\* C28 witness: a calculation failed in a mode other than the one of the
\* result kept, and the result is still there.
C28_Witness ==
  /\ TVM_Failed
  /\ tvm.vm.last_result # NoResult
  /\ tvm.vm.last_result = tvm.before.last_result
  /\ tvm.vm.last_result.calculation_mode # tvm.vm.calculation_mode

(***************************************************************************)
(* MainWindow: the vocabulary of C29                                       *)
(***************************************************************************)
MW_Displayed == currentWidget(mw.w.stacked_widget)
MW_Widgets == mw.w.stacked_widget.widgets
MW_ToolWidgets == {i \in 1..Len(MW_Widgets) : MW_Widgets[i] # start_menu}
MW_Loaded == pc = "window" /\ mw.op = "load_tool"

\* C29: current_tool_id is None exactly when the start menu is displayed,
\* otherwise it is the tool of the displayed widget; the stack holds the
\* start menu and at most one tool widget, and never the widget of the tool
\* loaded before; load_tool of an unregistered id leaves the window as it
\* was; load_tool whose factory raises ends on the start menu with
\* current_tool_id None.
C29_ToolSwitching ==
  /\ (mw.w.current_tool_id = NoToolId) <=> (MW_Displayed = start_menu)
  /\ mw.w.current_tool_id # NoToolId
       => MW_Displayed.tool = mw.w.current_tool_id
  /\ IndexOf(MW_Widgets, start_menu) # 0
  /\ Cardinality(MW_ToolWidgets) <= 1
  /\ MW_Loaded /\ is_tool_available(mw.tool_id) /\ ~mw.factory_raises
                /\ mw.before.current_tool_widget # Unset
       => IndexOf(MW_Widgets, mw.before.current_tool_widget) = 0
  /\ MW_Loaded /\ ~is_tool_available(mw.tool_id) => mw.w = mw.before
  /\ MW_Loaded /\ is_tool_available(mw.tool_id) /\ mw.factory_raises
       => MW_Displayed = start_menu /\ mw.w.current_tool_id = NoToolId

\* C29 witness: a tool was displayed, the factory of another raised, and the
\* window is on the start menu with the first tool's widget still stacked.
C29_Witness ==
  /\ MW_Loaded /\ mw.factory_raises /\ is_tool_available(mw.tool_id)
  /\ mw.before.current_tool_id \notin {NoToolId, mw.tool_id}
  /\ MW_Displayed = start_menu
  /\ Cardinality(MW_ToolWidgets) = 1

\* C29 witness: one tool replaced another in the stack.
C29_WitnessReplaced ==
  /\ MW_Loaded /\ mw.w.current_tool_id = "thermodynamics"
  /\ mw.before.current_tool_id = "beer_lambert"
  /\ MW_Widgets = <<start_menu, mw.w.current_tool_widget>>

=============================================================================
